---- MODULE Spec2Model ----
(***************************************************************************)
(* Model of the RAG test suite flow (src/src/rag_test_suite/flow.py) and   *)
(* of the adapters and collaborators its phases call.                      *)
(*                                                                         *)
(* The flow is a chain of phase methods wired by @start/@router/@listen    *)
(* decorators.  pc names the method that runs next; every method is one    *)
(* action, except the EXECUTE loop, which takes one step per external      *)
(* call (ask, then judge) of each iteration.                               *)
(*                                                                         *)
(* Numbers: similarity scores are kept in tenths (0.7 is 7), pass rates as *)
(* exact fractions [num, den].  Strings returned by collaborators are      *)
(* represented by the case of the code they select.                        *)
(***************************************************************************)
EXTENDS Integers, Sequences, FiniteSets, TLC

\* ---------------------------------------------------------------- bounds
MaxTests == 2
\* results in a list given to calculate_category_scores
MaxAggLen == 4
\* evaluation passes over one list
MaxCalls == 2
\* the largest max_retries given to run_discovery
MaxRetries == 3
\* items in a generated array, rows in a CSV file
MaxItems == 2
\* api_timeout, api_poll_interval and the time one status request takes, in seconds
MaxTimeout == 3
MaxInterval == 2
MaxRequestSeconds == 2
\* num_results and max_results of a RAG query
MaxNumResults == 4
\* environment variables set when the settings are loaded
MaxEnv == 2
\* calls of load_settings and reload_settings in a process
MaxLoads == 3
\* data lines the SSE stream carries during one query
MaxLines == 3

Min(a, b) == IF a < b THEN a ELSE b

\* ------------------------------------------------------- program constants
\* EvaluatorTool.pass_threshold = 0.7, in tenths
pass_threshold == 7
\* final fallback score of EvaluatorTool._call_llm, 0.5 in tenths
FallbackScore == 5
\* TestResult.similarity_score has le=1.0, in tenths
MaxScore == 10
\* calculate_category_scores keeps evaluation_rationale[:100]
IssueChars == 100
\* and of the issues of a category stats["issues"][:3]
MaxIssues == 3

\* ------------------------------------------------------------ domain model
valid_modes ==
    {"full", "prompt_only", "generate_only", "execute_only", "generate_and_execute"}

\* str.lower() on the mode strings the model feeds in
Lower(s) ==
    CASE s = "EXECUTE_ONLY" -> "execute_only"
      [] s = "REASONING"    -> "reasoning"
      [] s = "RAGEngine"    -> "ragengine"
      [] OTHER              -> s

TestCategory == {"factual", "reasoning"}

TestDifficulty == {"easy", "medium", "hard"}

TestCase == [id : {"T1", "T2"}, category : TestCategory]

\* the test cases a generator or a CSV file can hold
TestCasePool ==
    { [id |-> "T1", category |-> "factual"],
      [id |-> "T2", category |-> "reasoning"] }

TestLists == UNION { [1..n -> TestCasePool] : n \in 0..MaxTests }

Zero == [num |-> 0, den |-> 1]

\* TestSuiteState() with its field defaults
TestSuiteState ==
    [ run_mode           |-> "full",
      test_csv_path      |-> "",
      target_mode        |-> "api",
      target_api_url     |-> "",
      target_crew_path   |-> "",
      rag_summary        |-> "None",
      prompt_suggestions |-> "None",
      test_cases         |-> << >>,
      current_test_index |-> 0,
      results            |-> << >>,
      pass_rate          |-> Zero,
      category_scores    |-> << >>,
      quality_report     |-> "" ]

VARIABLES
    pc,             \* the method of the flow that runs next
    entry,          \* "run_flow" or "kickoff": how the run was started
    requested,      \* the run mode the caller asked for
    state,          \* flow.state, a TestSuiteState
    crew_runner,    \* flow.crew_runner: mode and which settings are non-empty
    env_token,      \* os.environ has TARGET_API_TOKEN
    called,         \* the phase methods invoked so far, in order
    method_output,  \* return value of the method that ran last
    raised,         \* exception that left the flow, "none" if none did
    asked,          \* EXECUTE: ask calls that have returned
    actual_answer,  \* EXECUTE: the local actual_answer, the last ask's string
    judge,          \* EXECUTE: the judge's reply to the last judge call
    analysed,       \* EVALUATE: calls of the analysis collaborator made
    i,              \* EXECUTE: test cases the loop has gone through
    analysis_inputs,  \* EVALUATE: the inputs of the analysis crew's kickoff
    report_inputs,    \* REPORT: the inputs of the reporting crew's kickoff
    \* calculate_category_scores taken alone, on result lists of its own
    agg_results,    \* the result list it is called on
    agg_scores,     \* the CategoryScore list the caller holds
    agg_calls,      \* calls made
    \* run_discovery taken alone, attempt by attempt
    disc_pc,        \* "attempt", "returned", "raised" or "stored"
    max_retries,    \* its max_retries argument
    crew_outputs,   \* what the discovery crew does at each attempt
    attempt,        \* attempts made
    fallbacks,      \* calls of _create_fallback_summary made
    disc_result,    \* what run_discovery returned
    topics_result,  \* what the fallback's direct RAG query gave
    fallback_domains,  \* the domains of the fallback summary, by name
    rag_summary,    \* the RagSummary discover_rag_data makes of the result
    \* parse_test_cases and the row loop of load_tests_from_csv taken alone
    parse_source,   \* "generated" (the crew's output) or "csv" (a file's rows)
    raw_output,     \* what the text is: "array", "object", "unparseable"; "rows"
    parse_items,    \* the items of the array, the rows of the file
    parse_index,    \* items gone through
    parse_cases,    \* the local list test_cases
    parse_pc,       \* "loop", "returned", "failed" (the CSV load gave up)
    parse_result,   \* the list returned, or assigned to state.test_cases
    \* main, the command line entry point, taken alone
    main_pc,        \* "parse_args", "validate", "run_flow", "output", "exited"
    cli_args,       \* the command line
    main_error,     \* the message of parser.error, "none" if it was not called
    exit_status,    \* the status the process exited with
    flow_constructed,  \* run_flow was called
    flow_result,    \* what run_flow returned
    \* CrewRunnerTool._run taken alone
    run_pc,         \* "run", "post", "poll", "subprocess", "returned", "raised"
    run_tool,       \* the tool's mode, and which of its settings are non-empty
    run_token,      \* the variable api_token_env_var names is set
    api_timeout,    \* the field api_timeout
    api_poll_interval,  \* the field api_poll_interval
    http_requests,  \* HTTP requests sent
    subprocesses,   \* subprocesses started
    elapsed,        \* time.time() - start_time
    last_status,    \* what the last status request gave
    run_result,     \* the string returned, or the message of the error raised
    \* RagQueryTool._run taken alone
    rag_pc,         \* "run", "ragengine", "qdrant", "returned", "raised"
    rag_tool,       \* the tool's backend, max_results, and which settings are non-empty
    rag_token,      \* the variable mcp_token_env_var names is set
    num_results,    \* the argument num_results
    rag_requested,  \* the number of results asked of the backend, 0 if none was
    rag_output,     \* the string returned
    \* the RAG part of kickoff's input mapping taken alone
    kick_pc,        \* "mapping", "swap", "mapped", "raised"
    kick_inputs,    \* the RAG keys of the inputs dict
    kick_locals,    \* the locals rag_backend and rag_mcp_url
    flow_rag_tool,  \* self.rag_tool
    kick_env,       \* the environment variables kickoff has set
    \* _apply_env_overrides taken alone
    ov_pc,          \* "loop", "returned"
    ov_settings,    \* the settings dict: a value for every key path in it
    ov_environ,     \* os.environ, in its iteration order
    ov_index,       \* the variables the loop has gone through
    \* the parsing of the judge's reply in EvaluatorTool._call_llm taken alone
    ev_pc,          \* "extract", "repair", "parse", "returned"
    ev_content,     \* content, the judge's reply, token by token
    ev_json,        \* json_str
    ev_result,      \* which way the result was made, and the keys json.loads gave
    \* load_settings and reload_settings, call after call
    settings_cache, \* _settings_cache: None, or the settings of one read of a file
    settings_disk,  \* the settings files that exist
    settings_reads, \* files opened so far
    settings_log,   \* the calls made: function, settings_path, what it gave
    \* _query_ragengine and its listener thread
    sse_pc,           \* where _query_ragengine is
    sse_iter,         \* iterations left of the wait loop it is in
    sse_thread,       \* where sse_listener is
    sse_lines,        \* data lines read from the stream so far
    result_queue,     \* result_queue: the message types put and not yet got
    session_endpoint, \* the nonlocal both threads assign
    sse_posts,        \* the methods posted to the message endpoint
    sse_return        \* what the query returned, and the id of the reply it is made of

Flow == << pc, entry, requested, state, crew_runner, env_token, called,
           method_output, raised, asked, actual_answer, judge, analysed, i,
           analysis_inputs, report_inputs >>

Aggregator == << agg_results, agg_scores, agg_calls >>

Discovery == << disc_pc, max_retries, crew_outputs, attempt, fallbacks, disc_result,
                topics_result, fallback_domains, rag_summary >>

Parser == << parse_source, raw_output, parse_items, parse_index, parse_cases,
             parse_pc, parse_result >>

Main == << main_pc, cli_args, main_error, exit_status, flow_constructed, flow_result >>

Runner == << run_pc, run_tool, run_token, api_timeout, api_poll_interval,
             http_requests, subprocesses, elapsed, last_status, run_result >>

\* the tools and helpers taken alone
Rag == << rag_pc, rag_tool, rag_token, num_results, rag_requested, rag_output >>

Swap == << kick_pc, kick_inputs, kick_locals, flow_rag_tool, kick_env >>

Override == << ov_pc, ov_settings, ov_environ, ov_index >>

Repair == << ev_pc, ev_content, ev_json, ev_result >>

Loader == << settings_cache, settings_disk, settings_reads, settings_log >>

Session == << sse_pc, sse_iter, sse_thread, sse_lines, result_queue, session_endpoint, sse_posts, sse_return >>

Tools == << Parser, Main, Runner, Rag, Swap, Override, Repair, Loader, Session >>

ParserRest == << Flow, Aggregator, Discovery, Main, Runner, Rag, Swap, Override, Repair, Loader, Session >>
MainRest == << Flow, Aggregator, Discovery, Parser, Runner, Rag, Swap, Override, Repair, Loader, Session >>
RunnerRest == << Flow, Aggregator, Discovery, Parser, Main, Rag, Swap, Override, Repair, Loader, Session >>
RagRest == << Flow, Aggregator, Discovery, Parser, Main, Runner, Swap, Override, Repair, Loader, Session >>
SwapRest == << Flow, Aggregator, Discovery, Parser, Main, Runner, Rag, Override, Repair, Loader, Session >>
OverrideRest == << Flow, Aggregator, Discovery, Parser, Main, Runner, Rag, Swap, Repair, Loader, Session >>
RepairRest == << Flow, Aggregator, Discovery, Parser, Main, Runner, Rag, Swap, Override, Loader, Session >>
LoaderRest == << Flow, Aggregator, Discovery, Parser, Main, Runner, Rag, Swap, Override, Repair, Session >>
SessionRest == << Flow, Aggregator, Discovery, Parser, Main, Runner, Rag, Swap, Override, Repair, Loader >>

\* what the flow does not touch
Aside == << Aggregator, Discovery, Tools >>

vars == << Flow, Aggregator, Discovery, Tools >>

\* no kickoff of the analysis crew, or of the reporting crew, yet
NoAnalysisInputs ==
    [given |-> FALSE, pass_rate |-> 0, total_tests |-> 0, passed_count |-> 0,
     failed_count |-> 0]

NoReportInputs ==
    [given |-> FALSE, pass_rate |-> 0, total_tests |-> 0, passed_count |-> 0,
     failed_count |-> 0, category_breakdown |-> << >>]

NoJudge == [kind |-> "none", score_field |-> "absent", score |-> 0, passed |-> "none"]

\* ------------------------------------------------------------------ inputs
\* CrewRunnerTool as create_crew_runner_from_config can build it
RunnerConfigs ==
    { [mode |-> "api",   api_url |-> TRUE,  crew_path |-> FALSE, crew_module |-> FALSE],
      [mode |-> "api",   api_url |-> FALSE, crew_path |-> FALSE, crew_module |-> FALSE],
      [mode |-> "local", api_url |-> FALSE, crew_path |-> TRUE,  crew_module |-> TRUE],
      [mode |-> "local", api_url |-> FALSE, crew_path |-> TRUE,  crew_module |-> FALSE],
      [mode |-> "local", api_url |-> FALSE, crew_path |-> FALSE, crew_module |-> TRUE] }

\* RUN_MODE values given to kickoff; "" stands for a missing key
KickoffModes == valid_modes \cup {"", "EXECUTE_ONLY", "bogus"}
\* run_mode values given to run_flow
RunFlowModes == valid_modes \cup {"bogus"}

\* "tests.csv" is a readable file, "missing.csv" does not exist
CsvPaths == {"", "missing.csv", "tests.csv"}

\* The inputs dict of kickoff.  A key that is absent and a key whose value is
\* "" are read alike (inputs.get(K) or default), so "" stands for both; KEYS
\* tells whether the dict holds any key at all (the test `if inputs:`).
KickoffInput(keys, m, p, u, t) ==
    [KEYS |-> keys, RUN_MODE |-> m, TEST_CSV_PATH |-> p, TARGET_API_URL |-> u,
     TARGET_API_TOKEN |-> t]

KickoffInputs ==
    { KickoffInput(TRUE, m, "", "", "") : m \in KickoffModes }
    \cup { KickoffInput(TRUE, "execute_only", p, "", "") : p \in CsvPaths }
    \cup { KickoffInput(TRUE, "execute_only", "tests.csv", "https://target/kickoff",
                        "secret"),
           KickoffInput(FALSE, "", "", "", "") }

\* The arguments of run_flow
RunFlowArg(m, p, u, c) ==
    [run_mode |-> m, test_csv_path |-> p, target_api_url |-> u, target_crew_path |-> c]

RunFlowArgs ==
    { RunFlowArg(m, "", "", "") : m \in RunFlowModes }
    \cup { RunFlowArg("execute_only", "tests.csv", "", ""),
           RunFlowArg("full", "", "https://target/kickoff", ""),
           RunFlowArg("full", "", "", "/crews/target") }

FlowInit ==
    /\ pc = "idle"
    /\ entry = "none"
    /\ requested = "none"
    /\ state = TestSuiteState
    /\ crew_runner \in RunnerConfigs
    /\ env_token \in (IF crew_runner.mode = "api" THEN BOOLEAN ELSE {FALSE})
    /\ called = << >>
    /\ method_output = "None"
    /\ raised = "none"
    /\ asked = 0
    /\ actual_answer = "none"
    /\ judge = NoJudge
    /\ analysed = 0
    /\ i = 0
    /\ analysis_inputs = NoAnalysisInputs
    /\ report_inputs = NoReportInputs

\* the aggregator and run_discovery at rest, while the flow runs
AggregatorIdle ==
    /\ agg_results = << >>
    /\ agg_scores = << >>
    /\ agg_calls = 0

\* a text is told by the topic words it contains
NoText == [kind |-> "none", contains |-> {}]

NoRagSummary == [source |-> "None", domains |-> << >>]

DiscoveryIdle ==
    /\ disc_pc = "idle"
    /\ max_retries = 0
    /\ crew_outputs = << >>
    /\ attempt = 0
    /\ fallbacks = 0
    /\ disc_result = "none"
    /\ topics_result = NoText
    /\ fallback_domains = << >>
    /\ rag_summary = NoRagSummary

ParserIdle ==
    /\ parse_source = "none"
    /\ raw_output = "none"
    /\ parse_items = << >>
    /\ parse_index = 0
    /\ parse_cases = << >>
    /\ parse_pc = "idle"
    /\ parse_result = << >>

NoArgs ==
    [run_mode |-> "full", test_csv |-> "", num_tests |-> "20", output |-> "",
     target_api_url |-> ""]

MainIdle ==
    /\ main_pc = "idle"
    /\ cli_args = NoArgs
    /\ main_error = "none"
    /\ exit_status = 0
    /\ flow_constructed = FALSE
    /\ flow_result = "none"

RunnerIdle ==
    /\ run_pc = "idle"
    /\ run_tool = [mode |-> "api", api_url |-> FALSE, crew_path |-> FALSE,
                   crew_module |-> FALSE]
    /\ run_token = FALSE
    /\ api_timeout = 0
    /\ api_poll_interval = 0
    /\ http_requests = 0
    /\ subprocesses = 0
    /\ elapsed = 0
    /\ last_status = "none"
    /\ run_result = "none"

\* a string the RAG query returns: how it starts, the result items in it and
\* the length of the longest excerpt among them
NoOutput == [prefix |-> "none", items |-> 0, excerpt |-> 0]

RagIdle ==
    /\ rag_pc = "idle"
    /\ rag_tool = [backend |-> "ragengine", mcp_url |-> FALSE, corpus |-> FALSE,
                   qdrant_url |-> FALSE, collection |-> FALSE, max_results |-> 1]
    /\ rag_token = FALSE
    /\ num_results = 1
    /\ rag_requested = 0
    /\ rag_output = NoOutput

\* kickoff called without inputs
NoInputs ==
    [KEYS |-> FALSE, RAG_BACKEND |-> "", RAG_MCP_URL |-> "", RAG_MCP_TOKEN |-> "",
     RAG_CORPUS |-> "", RAG_QDRANT_URL |-> "", RAG_QDRANT_COLLECTION |-> "",
     RAG_ENDPOINT |-> ""]

NoLocals == [rag_backend |-> "", rag_mcp_url |-> ""]

\* a RagQueryTool: who built it, and the settings it was built with
RagQueryTool(origin, backend, mcp_url, corpus, qdrant_url, collection) ==
    [origin |-> origin, backend |-> backend, mcp_url |-> mcp_url, corpus |-> corpus,
     qdrant_url |-> qdrant_url, collection |-> collection]

SwapIdle ==
    /\ kick_pc = "idle"
    /\ kick_inputs = NoInputs
    /\ kick_locals = NoLocals
    /\ flow_rag_tool = RagQueryTool("config", "ragengine", "", "", "", "")
    /\ kick_env = {}

\* a dict inside the settings, the empty settings
DictValue == [type |-> "dict", text |-> ""]
NoSettings == [p \in {} |-> DictValue]

OverrideIdle ==
    /\ ov_pc = "idle"
    /\ ov_settings = NoSettings
    /\ ov_environ = << >>
    /\ ov_index = 0

NoEvaluation == [by |-> "none", keys |-> {}]

RepairIdle ==
    /\ ev_pc = "idle"
    /\ ev_content = << >>
    /\ ev_json = << >>
    /\ ev_result = NoEvaluation

\* _settings_cache = None
NoCache == [path |-> "None", read |-> 0]

LoaderIdle ==
    /\ settings_cache = NoCache
    /\ settings_disk = {}
    /\ settings_reads = 0
    /\ settings_log = << >>

NoReturn == [text |-> "None", id |-> 0]

SessionIdle ==
    /\ sse_pc = "idle"
    /\ sse_iter = 0
    /\ sse_thread = "idle"
    /\ sse_lines = 0
    /\ result_queue = << >>
    /\ session_endpoint = "None"
    /\ sse_posts = << >>
    /\ sse_return = NoReturn

ToolsIdle == ParserIdle /\ MainIdle /\ RunnerIdle /\ RagIdle /\ SwapIdle /\ OverrideIdle /\ RepairIdle /\ LoaderIdle /\ SessionIdle

Init == FlowInit /\ AggregatorIdle /\ DiscoveryIdle /\ ToolsIdle

\* the flow at rest, while the aggregator or run_discovery is taken alone
FlowIdle ==
    /\ FlowInit
    /\ crew_runner = [mode |-> "local", api_url |-> FALSE, crew_path |-> TRUE,
                      crew_module |-> TRUE]

\* ------------------------------------------------------------- entry points
\* kickoff without the validation of the mode
KickoffRunModeUnchecked(inputs) ==
    Lower(IF inputs.RUN_MODE # "" THEN inputs.RUN_MODE ELSE "full")

\* kickoff, lines 82-91: inputs.get("RUN_MODE") or ... or "full", lowered,
\* and replaced by "full" when it is not one of valid_modes
KickoffRunMode(inputs) ==
    LET run_mode_input == Lower(IF inputs.RUN_MODE # "" THEN inputs.RUN_MODE ELSE "full")
    IN  IF run_mode_input \notin valid_modes THEN "full" ELSE run_mode_input

\* kickoff: the state after the mapping of the inputs (skipped for an empty dict)
KickoffState(st, inputs) ==
    IF inputs.KEYS
    THEN [st EXCEPT !.run_mode       = KickoffRunMode(inputs),
                    !.test_csv_path  = inputs.TEST_CSV_PATH,
                    !.target_mode    = "api",
                    !.target_api_url = inputs.TARGET_API_URL,
                    !.target_crew_path = ""]
    ELSE st

\* kickoff, lines 177-180: the crew runner follows a target URL given as input
KickoffRunner(runner, inputs) ==
    IF inputs.KEYS /\ inputs.TARGET_API_URL # ""
    THEN [runner EXCEPT !.api_url = TRUE, !.mode = "api"]
    ELSE runner

\* run_flow, lines 701-717: the state it writes before it calls kickoff
RunFlowState(st, args) ==
    [st EXCEPT !.run_mode         = args.run_mode,
               !.test_csv_path    = args.test_csv_path,
               !.target_api_url   = args.target_api_url,
               !.target_crew_path = args.target_crew_path,
               !.target_mode      = IF args.target_api_url # "" THEN "api" ELSE "local"]

\* run_flow, lines 719-727
RunFlowRunner(runner, args) ==
    IF args.target_api_url # ""
    THEN [runner EXCEPT !.api_url = TRUE, !.mode = "api"]
    ELSE IF args.target_crew_path # ""
         THEN [runner EXCEPT !.crew_path = TRUE, !.mode = "local"]
         ELSE runner

\* run_flow, lines 729-738: the dict it hands to kickoff holds RAG keys only
RunFlowInputs ==
    [KEYS |-> TRUE, RUN_MODE |-> "", TEST_CSV_PATH |-> "", TARGET_API_URL |-> "",
     TARGET_API_TOKEN |-> ""]

\* kickoff and run_flow also keep target_api_token, rag_mcp_url, rag_corpus,
\* rag_qdrant_url and rag_qdrant_collection in the state, attributes that
\* TestSuiteState (models.py, lines 173-216) does not declare.  What the state
\* object does with an attribute its model does not declare is the library's
\* matter: it takes it, as tests/test_flow.py (lines 532-535) expects, or the
\* assignment raises ValueError and a read of one never assigned
\* AttributeError.  Both outcomes are modelled.

\* kickoff: the state written before the first undeclared attribute, which is
\* target_api_token (line 109) when a token is given and rag_mcp_url (line
\* 136) otherwise
KickoffStateBeforeUndeclared(st, inputs) ==
    [st EXCEPT !.run_mode       = KickoffRunMode(inputs),
               !.test_csv_path  = inputs.TEST_CSV_PATH,
               !.target_mode    = "api",
               !.target_api_url = inputs.TARGET_API_URL,
               !.target_crew_path =
                    IF inputs.TARGET_API_TOKEN # "" THEN @ ELSE ""]

\* run_flow, lines 701-703: the state written before target_api_token (705)
RunFlowStateBeforeUndeclared(st, args) ==
    [st EXCEPT !.run_mode       = args.run_mode,
               !.test_csv_path  = args.test_csv_path,
               !.target_api_url = args.target_api_url]

\* the mapping is done and super().kickoff() starts the flow at its @start
Started ==
    /\ pc' = "route_by_mode"
    /\ UNCHANGED << called, method_output, raised, asked, actual_answer,
                    judge, analysed, i, analysis_inputs, report_inputs, Aside >>

\* the state object rejects the attribute: the exception leaves the entry
\* point before any phase method has run
MappingRaises(exception) ==
    /\ pc' = "raised"
    /\ raised' = exception
    /\ UNCHANGED << crew_runner, env_token, called, method_output, asked,
                    actual_answer, judge, analysed, i, analysis_inputs,
                    report_inputs, Aside >>

\* RAGTestSuiteFlow.kickoff called by the platform with an inputs dict
kickoff ==
    /\ pc = "idle"
    /\ \E inputs \in KickoffInputs :
          /\ entry' = "kickoff"
          /\ requested' = inputs.RUN_MODE
          /\ \/ /\ state' = KickoffState(state, inputs)
                /\ crew_runner' = KickoffRunner(crew_runner, inputs)
                /\ env_token' = (env_token \/ inputs.TARGET_API_TOKEN # "")
                /\ Started
             \/ /\ inputs.KEYS
                /\ state' = KickoffStateBeforeUndeclared(state, inputs)
                /\ MappingRaises("ValueError")
             \/ /\ ~inputs.KEYS
                /\ UNCHANGED state
                /\ MappingRaises("AttributeError")

\* run_flow: writes the state, then calls kickoff with its RAG inputs
run_flow ==
    /\ pc = "idle"
    /\ \E args \in RunFlowArgs :
          /\ entry' = "run_flow"
          /\ requested' = args.run_mode
          /\ \/ /\ state' = KickoffState(RunFlowState(state, args), RunFlowInputs)
                /\ crew_runner' =
                      KickoffRunner(RunFlowRunner(crew_runner, args), RunFlowInputs)
                /\ env_token' = env_token
                /\ Started
             \/ /\ state' = RunFlowStateBeforeUndeclared(state, args)
                /\ MappingRaises("ValueError")

\* ------------------------------------------------------------------ routers
\* a method returns: its name joins the log, its value is the last output
Returns(method, value, next) ==
    /\ pc' = next
    /\ called' = Append(called, method)
    /\ method_output' = value

\* a mode router that forgot the CSV branch
ModeRouteAlwaysDiscover(mode) == "discover"

\* listeners wired so that evaluation follows test generation at once
ListenerSkipsExecute(label) ==
    CASE label = "load_from_csv"        -> "load_tests_from_csv"
      [] label = "discover"             -> "discover_rag_data"
      [] label = "output_prompts"       -> "output_prompt_suggestions"
      [] label = "continue_to_test_gen" -> "generate_test_cases"
      [] label = "output_tests"         -> "output_test_cases"
      [] label = "continue_to_execute"  -> "evaluate_results"

\* mode_router, lines 222-228 (route_by_mode computes the same value)
ModeRoute(mode) ==
    IF Lower(mode) = "execute_only" THEN "load_from_csv" ELSE "discover"

\* prompt_exit_router, lines 360-366
PromptExitRoute(mode) ==
    IF Lower(mode) = "prompt_only" THEN "output_prompts" ELSE "continue_to_test_gen"

\* generate_exit_router, lines 430-436
GenerateExitRoute(mode) ==
    IF Lower(mode) = "generate_only" THEN "output_tests" ELSE "continue_to_execute"

\* @listen: the method that listens to a router's label
Listener(label) ==
    CASE label = "load_from_csv"        -> "load_tests_from_csv"
      [] label = "discover"             -> "discover_rag_data"
      [] label = "output_prompts"       -> "output_prompt_suggestions"
      [] label = "continue_to_test_gen" -> "generate_test_cases"
      [] label = "output_tests"         -> "output_test_cases"
      [] label = "continue_to_execute"  -> "execute_tests"

\* what a phase method leaves alone unless it says otherwise
Config == << entry, requested, crew_runner, env_token >>
Loop == << asked, actual_answer, judge, i >>
Idle ==
    UNCHANGED << Config, Aside, raised, Loop, analysed, analysis_inputs, report_inputs >>

\* an exception leaves the phase method and, nothing catching it, the flow:
\* RuntimeError (ask), ValidationError (TestResult), CrewException (whatever a
\* collaborator crew's kickoff raises), RagException (whatever a RAG query raises)
Raises(method, exception) ==
    /\ pc' = "raised"
    /\ raised' = exception
    /\ called' = Append(called, method)
    /\ UNCHANGED method_output

route_by_mode ==
    /\ pc = "route_by_mode"
    /\ Returns("route_by_mode", ModeRoute(state.run_mode), "mode_router")
    /\ UNCHANGED state /\ Idle

mode_router ==
    /\ pc = "mode_router"
    /\ Returns("mode_router", ModeRoute(state.run_mode),
               Listener(ModeRoute(state.run_mode)))
    /\ UNCHANGED state /\ Idle

check_prompt_only_exit ==
    /\ pc = "check_prompt_only_exit"
    /\ Returns("check_prompt_only_exit", PromptExitRoute(state.run_mode),
               "prompt_exit_router")
    /\ UNCHANGED state /\ Idle

prompt_exit_router ==
    /\ pc = "prompt_exit_router"
    /\ Returns("prompt_exit_router", PromptExitRoute(state.run_mode),
               Listener(PromptExitRoute(state.run_mode)))
    /\ UNCHANGED state /\ Idle

check_generate_only_exit ==
    /\ pc = "check_generate_only_exit"
    /\ Returns("check_generate_only_exit", GenerateExitRoute(state.run_mode),
               "generate_exit_router")
    /\ UNCHANGED state /\ Idle

generate_exit_router ==
    /\ pc = "generate_exit_router"
    /\ Returns("generate_exit_router", GenerateExitRoute(state.run_mode),
               Listener(GenerateExitRoute(state.run_mode)))
    /\ UNCHANGED state /\ Idle

\* ---------------------------------------------------------------- LOAD_CSV
\* What open() and the row loop of load_tests_from_csv can come to for a path:
\* "rows" (every row converted), "missing" (FileNotFoundError), "error" (any
\* other exception, a row that raises included)
CsvReads(path) ==
    IF path = "tests.csv" THEN {"rows", "error"} ELSE {"missing"}

load_tests_from_csv ==
    /\ pc = "load_tests_from_csv"
    /\ \/ /\ state.test_csv_path = ""
          /\ UNCHANGED state
       \/ /\ state.test_csv_path # ""
          /\ \E read \in CsvReads(state.test_csv_path), test_cases \in TestLists :
                state' = IF read = "rows"
                         THEN [state EXCEPT !.test_cases = test_cases]
                         ELSE state
    /\ Returns("load_tests_from_csv", "None", "execute_csv_tests")
    /\ Idle

\* ---------------------------------------------------------------- DISCOVER
\* run_discovery returns the discovery crew's first valid output or, after its
\* attempts, _create_fallback_summary's, whose RAG query, made outside the try,
\* may itself raise.  discover_rag_data parses what it gets: a RagSummary
\* ("parsed", "fallback"), or one holding the raw text when RagSummary(**data)
\* fails ("raw_text").
discover_rag_data ==
    /\ pc = "discover_rag_data"
    /\ \/ \E summary \in {"parsed", "raw_text", "fallback"} :
            /\ state' = [state EXCEPT !.rag_summary = summary]
            /\ Returns("discover_rag_data", "None", "generate_prompt_suggestions")
            /\ UNCHANGED raised
       \/ /\ Raises("discover_rag_data", "RagException")
          /\ UNCHANGED state
    /\ UNCHANGED << Config, Aside, Loop, analysed, analysis_inputs, report_inputs >>

\* -------------------------------------------------------- GENERATE_PROMPTS
\* run_prompt_generator: parsed suggestions, or _create_default_suggestions
\* when the output does not parse or the crew raises
PromptGeneratorOutcomes == {"parsed", "unparseable", "raises"}

run_prompt_generator(outcome) ==
    IF outcome = "parsed" THEN "generated" ELSE "default"

generate_prompt_suggestions ==
    /\ pc = "generate_prompt_suggestions"
    /\ \E outcome \in PromptGeneratorOutcomes :
          state' = [state EXCEPT !.prompt_suggestions = run_prompt_generator(outcome)]
    /\ Returns("generate_prompt_suggestions", "None", "check_prompt_only_exit")
    /\ Idle

output_prompt_suggestions ==
    /\ pc = "output_prompt_suggestions"
    /\ Returns("output_prompt_suggestions",
               IF state.prompt_suggestions # "None" THEN "prompts_json" ELSE "{}",
               "done")
    /\ UNCHANGED state /\ Idle

\* ---------------------------------------------------------- GENERATE_TESTS
\* run_test_generation has no try: an exception of the crew's kickoff leaves
\* it; otherwise parse_test_cases returns a list, empty when nothing parses
TestGenerationOutcomes == {"returns", "raises"}

generate_test_cases ==
    /\ pc = "generate_test_cases"
    /\ \E outcome \in TestGenerationOutcomes, test_cases \in TestLists :
          IF outcome = "raises"
          THEN /\ Raises("generate_test_cases", "CrewException")
               /\ UNCHANGED state
          ELSE /\ state' = [state EXCEPT !.test_cases = test_cases]
               /\ Returns("generate_test_cases", "None", "check_generate_only_exit")
               /\ UNCHANGED raised
    /\ UNCHANGED << Config, Aside, Loop, analysed, analysis_inputs, report_inputs >>

output_test_cases ==
    /\ pc = "output_test_cases"
    /\ Returns("output_test_cases", "tests_json", "done")
    /\ UNCHANGED state /\ Idle

\* ----------------------------------------------------------------- EXECUTE
\* an ask that sends the request without looking for the token first
AskOutcomesNoTokenCheck(runner, token) ==
    IF runner.mode = "api"
    THEN IF ~runner.api_url
         THEN { [raises |-> TRUE, value |-> "RuntimeError"] }
         ELSE { [raises |-> FALSE, value |-> v] : v \in {"answer", "API Error: "} }
    ELSE IF ~runner.crew_module \/ ~runner.crew_path
         THEN { [raises |-> TRUE, value |-> "RuntimeError"] }
         ELSE { [raises |-> FALSE, value |-> v] : v \in {"answer", "Execution Error: "} }

\* CrewRunnerTool._run: what ask(question) can come to.  _run_api raises
\* RuntimeError without a token or a URL, _run_local without a crew module or
\* a crew path; every later failure is returned as a tagged string.
AskOutcomes(runner, token) ==
    IF runner.mode = "api"
    THEN IF ~token \/ ~runner.api_url
         THEN { [raises |-> TRUE, value |-> "RuntimeError"] }
         ELSE { [raises |-> FALSE, value |-> v] : v \in {"answer", "API Error: "} }
    ELSE IF ~runner.crew_module \/ ~runner.crew_path
         THEN { [raises |-> TRUE, value |-> "RuntimeError"] }
         ELSE { [raises |-> FALSE, value |-> v] : v \in {"answer", "Execution Error: "} }

\* What the judge model can answer, by the case of _call_llm it selects:
\*   error   the request raises (no API key, HTTP error, no choices)
\*   object  the content, repaired if truncated, parses as a JSON object
\*   array   it parses as JSON that is no object
\*   text    it does not parse
\* score_field: whether the content has a "score" that reads as a number
\* ("garbled": the regex finds one that float() rejects); passed: its "passed".
JudgeReply(kind, score_field, score, passed) ==
    [kind |-> kind, score_field |-> score_field, score |-> score, passed |-> passed]

JudgeReplies ==
    { JudgeReply("error",  "absent",  0,  "none"),
      JudgeReply("array",  "absent",  0,  "none"),
      JudgeReply("object", "number",  9,  "none"),
      JudgeReply("object", "number",  5,  "none"),
      JudgeReply("object", "number",  5,  "true"),
      JudgeReply("object", "number",  15, "none"),
      JudgeReply("object", "absent",  0,  "none"),
      JudgeReply("text",   "number",  9,  "true"),
      JudgeReply("text",   "number",  9,  "none"),
      JudgeReply("text",   "number",  15, "none"),
      JudgeReply("text",   "garbled", 0,  "none"),
      JudgeReply("text",   "absent",  0,  "none") }

Verdict(passed, score) == [json |-> TRUE, passed |-> passed, score |-> score]

\* an evaluator whose every unparseable reply is a plain failure with score 0
EvaluatorRunZeroOnText(reply) ==
    LET score  == IF reply.score_field = "number" THEN reply.score ELSE 0
        passed == IF reply.passed = "none" THEN score >= pass_threshold
                  ELSE reply.passed = "true"
    IN  IF reply.kind = "object" THEN Verdict(passed, score) ELSE Verdict(FALSE, 0)

\* EvaluatorTool._run over _call_llm: always a JSON string with passed and score
EvaluatorRun(reply) ==
    LET score  == IF reply.score_field = "number" THEN reply.score ELSE 0
        passed == IF reply.passed = "none" THEN score >= pass_threshold
                  ELSE reply.passed = "true"
    IN  CASE reply.kind = "object" -> Verdict(passed, score)
          [] reply.kind = "text" /\ reply.score_field = "number" -> Verdict(passed, score)
          [] reply.kind = "text" /\ reply.score_field = "absent" ->
                 Verdict(FALSE, FallbackScore)
          [] OTHER -> Verdict(FALSE, 0)

\* execute_tests, lines 503-506: json.loads of the evaluator's string
EvalData(eval_result) ==
    IF eval_result.json THEN eval_result ELSE Verdict(FALSE, 0)

\* TestResult(...): similarity_score is validated ge=0.0, le=1.0
TestResultValid(eval_data) ==
    eval_data.score >= 0 /\ eval_data.score <= MaxScore

\* the fields of a TestResult the model keeps (actual_answer, the rationale
\* and the execution time are stored as given and read by no decision)
TestResult(test, eval_data) ==
    [ test_case        |-> test,
      passed           |-> eval_data.passed,
      similarity_score |-> eval_data.score ]

\* an append that records the result twice
AppendResultTwice(results, test_result) ==
    Append(Append(results, test_result), test_result)

\* an insert at the head of the list instead of an append
PrependResult(results, test_result) == << test_result >> \o results

\* self.state.results.append(test_result)
AppendResult(results, test_result) == Append(results, test_result)

\* a loop that asks the next question before the last answer is judged
ExecuteAskAhead(method) ==
    /\ pc = method
    /\ asked < Len(state.test_cases)
    /\ state' = [state EXCEPT !.current_test_index = asked]
    /\ \E ask \in AskOutcomes(crew_runner, env_token) :
          IF ask.raises
          THEN /\ Raises(method, ask.value)
               /\ UNCHANGED << asked, actual_answer >>
          ELSE /\ actual_answer' = ask.value
               /\ asked' = asked + 1
               /\ UNCHANGED << pc, called, method_output, raised >>
    /\ UNCHANGED << Config, Aside, judge, analysed, i, analysis_inputs, report_inputs >>

\* the loop of execute_tests and execute_csv_tests, up to the ask call
ExecuteAsk(method) ==
    /\ pc = method
    /\ asked = i
    /\ i < Len(state.test_cases)
    /\ state' = [state EXCEPT !.current_test_index = i]
    /\ \E ask \in AskOutcomes(crew_runner, env_token) :
          IF ask.raises
          THEN /\ Raises(method, ask.value)
               /\ UNCHANGED << asked, actual_answer >>
          ELSE /\ actual_answer' = ask.value
               /\ asked' = asked + 1
               /\ UNCHANGED << pc, called, method_output, raised >>
    /\ UNCHANGED << Config, Aside, judge, analysed, i, analysis_inputs, report_inputs >>

\* the rest of the iteration: the judge call, the TestResult, the append
ExecuteJudge(method) ==
    /\ pc = method
    /\ asked = i + 1
    /\ \E reply \in JudgeReplies :
          LET eval_data == EvalData(EvaluatorRun(reply))
              test      == state.test_cases[i + 1]
          IN  /\ judge' = reply
              /\ IF TestResultValid(eval_data)
                 THEN /\ state' = [state EXCEPT !.results =
                                       AppendResult(@, TestResult(test, eval_data))]
                      /\ i' = i + 1
                      /\ UNCHANGED << pc, called, method_output, raised >>
                 ELSE /\ Raises(method, "ValidationError")
                      /\ UNCHANGED << state, i >>
    /\ UNCHANGED << Config, Aside, asked, actual_answer, analysed, analysis_inputs,
                    report_inputs >>

\* execute_csv_tests runs its loop only in execute_only mode with test cases
CsvLoopRuns(st) ==
    Lower(st.run_mode) = "execute_only" /\ st.test_cases # << >>

\* the loop is over (or was never entered): the method returns None and its
\* locals are gone
ExecuteEnd(method, next) ==
    /\ pc = method
    /\ asked = i
    /\ Returns(method, "None", next)
    /\ actual_answer' = "none"
    /\ judge' = NoJudge
    /\ UNCHANGED << Config, Aside, state, raised, asked, analysed, i, analysis_inputs,
                    report_inputs >>

execute_tests ==
    \/ ExecuteAsk("execute_tests")
    \/ ExecuteJudge("execute_tests")
    \/ i = Len(state.test_cases) /\ ExecuteEnd("execute_tests", "evaluate_results")

execute_csv_tests ==
    \/ CsvLoopRuns(state) /\ ExecuteAsk("execute_csv_tests")
    \/ CsvLoopRuns(state) /\ ExecuteJudge("execute_csv_tests")
    \/ /\ ~CsvLoopRuns(state) \/ i = Len(state.test_cases)
       /\ ExecuteEnd("execute_csv_tests", "evaluate_csv_results")

\* ---------------------------------------------------------------- EVALUATE
CountPassed(results) == Cardinality({ k \in DOMAIN results : results[k].passed })

\* a pass rate left as a fraction of 1 instead of a percentage
PassRateFraction(results) ==
    IF Len(results) > 0
    THEN [num |-> CountPassed(results), den |-> Len(results)]
    ELSE Zero

\* _run_evaluation, lines 587-589: (passed / total * 100) if total > 0 else 0
PassRate(results) ==
    IF Len(results) > 0
    THEN [num |-> CountPassed(results) * 100, den |-> Len(results)]
    ELSE Zero

\* f"{pass_rate:.1f}": the rate to one decimal, kept in tenths of a percent
\* (the rate of fewer than 16 results never lies half-way between two tenths,
\* so the rounding mode does not show)
Format1(rate) == (20 * rate.num + rate.den) \div (2 * rate.den)

\* ---------------------------------------------- calculate_category_scores
\* category_stats is a dict, which keeps its keys in the order of insertion:
\* a sequence of entries, one per category
NewStats(cat) == [category |-> cat, total |-> 0, passed |-> 0]

\* a loop turn that counts only the failed results in total
TallyResultFailedOnly(category_stats, result) ==
    LET cat   == result.test_case.category
        stats == IF \E k \in DOMAIN category_stats : category_stats[k].category = cat
                 THEN category_stats
                 ELSE Append(category_stats, NewStats(cat))
    IN  [k \in DOMAIN stats |->
            IF stats[k].category = cat
            THEN [stats[k] EXCEPT !.total  = IF result.passed THEN @ ELSE @ + 1,
                                  !.passed = IF result.passed THEN @ + 1 ELSE @]
            ELSE stats[k]]

\* one turn of the first loop, lines 104-111
TallyResult(category_stats, result) ==
    LET cat   == result.test_case.category
        stats == IF \E k \in DOMAIN category_stats : category_stats[k].category = cat
                 THEN category_stats
                 ELSE Append(category_stats, NewStats(cat))
    IN  [k \in DOMAIN stats |->
            IF stats[k].category = cat
            THEN [stats[k] EXCEPT !.total  = @ + 1,
                                  !.passed = IF result.passed THEN @ + 1 ELSE @]
            ELSE stats[k]]

\* category_stats after the first loop
RECURSIVE Tally(_)
Tally(results) ==
    IF results = << >>
    THEN << >>
    ELSE TallyResult(Tally(SubSeq(results, 1, Len(results) - 1)),
                     results[Len(results)])

\* the second loop, lines 116-126, without common_issues: the flow's results
\* are kept without their rationales, and so are its category scores
CategoryScore(stats) ==
    [ category  |-> stats.category,
      total     |-> stats.total,
      passed    |-> stats.passed,
      pass_rate |-> IF stats.total > 0
                    THEN [num |-> stats.passed * 100, den |-> stats.total]
                    ELSE Zero ]

CategoryScores(results) ==
    LET category_stats == Tally(results)
    IN  [k \in DOMAIN category_stats |-> CategoryScore(category_stats[k])]

\* a cut that keeps the whole rationale
TruncateNone(text) == text

\* a rationale is a text of some length; [:100] keeps its first 100 characters
Truncate(text) == [text EXCEPT !.len = IF @ > IssueChars THEN IssueChars ELSE @]

\* stats["issues"][:3] of a category: line 113 appends the rationale of each
\* failed result, cut, in the order of the results
CommonIssues(results, cat) ==
    LET failed == SelectSeq(results,
                            LAMBDA r : r.test_case.category = cat /\ ~r.passed)
        issues == [k \in DOMAIN failed |-> Truncate(failed[k].evaluation_rationale)]
    IN  SubSeq(issues, 1, IF Len(issues) > MaxIssues THEN MaxIssues ELSE Len(issues))

\* calculate_category_scores on results that carry their rationales
calculate_category_scores(results) ==
    LET scores == CategoryScores(results)
    IN  [k \in DOMAIN scores |->
            [ category      |-> scores[k].category,
              total         |-> scores[k].total,
              passed        |-> scores[k].passed,
              pass_rate     |-> scores[k].pass_rate,
              common_issues |-> CommonIssues(results, scores[k].category) ]]

\* run_evaluation, lines 69-73 and 84-93: the statistics it hands to the
\* analysis crew
AnalysisInputs(results) ==
    [ given        |-> TRUE,
      pass_rate    |-> Format1(PassRate(results)),
      total_tests  |-> Len(results),
      passed_count |-> CountPassed(results),
      failed_count |-> Len(results) - CountPassed(results) ]

\* run_evaluation: the analysis crew answers, or its kickoff raises
AnalysisOutcomes == {"analysis", "raises"}

\* _run_evaluation: the pass rate, the category scores, then the analysis
\* collaborator
RunEvaluation(method, next) ==
    \E outcome \in AnalysisOutcomes :
        /\ state' = [state EXCEPT !.pass_rate = PassRate(state.results),
                                  !.category_scores = CategoryScores(state.results)]
        /\ analysis_inputs' = AnalysisInputs(state.results)
        /\ analysed' = analysed + 1
        /\ IF outcome = "raises"
           THEN Raises(method, "CrewException")
           ELSE Returns(method, "None", next) /\ UNCHANGED raised

\* an evaluate_results that evaluates only when there are results
evaluate_results_guarded ==
    /\ pc = "evaluate_results"
    /\ IF state.results # << >>
       THEN RunEvaluation("evaluate_results", "generate_report")
       ELSE /\ Returns("evaluate_results", "None", "generate_report")
            /\ UNCHANGED << state, analysed, analysis_inputs, raised >>
    /\ UNCHANGED << Config, Aside, Loop, report_inputs >>

\* evaluate_results, lines 569-572: _run_evaluation whatever the results are
evaluate_results ==
    /\ pc = "evaluate_results"
    /\ RunEvaluation("evaluate_results", "generate_report")
    /\ UNCHANGED << Config, Aside, Loop, report_inputs >>

\* evaluate_csv_results evaluates only `if self.state.results`
evaluate_csv_results ==
    /\ pc = "evaluate_csv_results"
    /\ IF state.results # << >>
       THEN RunEvaluation("evaluate_csv_results", "generate_csv_report")
       ELSE /\ Returns("evaluate_csv_results", "None", "generate_csv_report")
            /\ UNCHANGED << state, analysed, analysis_inputs, raised >>
    /\ UNCHANGED << Config, Aside, Loop, report_inputs >>

\* ------------------------------------------------------------------ REPORT
\* run_reporting: the report crew's markdown, or its kickoff raises
ReportOutcomes == {"# Quality Report", "raises"}

\* what generate_report and generate_csv_report return: they call
\* _generate_report as a statement and have no return of their own
ReportReturn(quality_report) == "None"

\* format_category_table: a row per score, with the rate to one decimal
format_category_table(scores) ==
    [k \in DOMAIN scores |->
        [ category  |-> scores[k].category,
          pass_rate |-> Format1(scores[k].pass_rate),
          passed    |-> scores[k].passed,
          failed    |-> scores[k].total - scores[k].passed ]]

\* a run_reporting that reports the share of failed results as the pass rate
ReportInputsFailRate(results, category_scores) ==
    [ given              |-> TRUE,
      pass_rate          |-> Format1(IF Len(results) > 0
                                     THEN [num |-> (Len(results) - CountPassed(results)) * 100,
                                           den |-> Len(results)]
                                     ELSE Zero),
      total_tests        |-> Len(results),
      passed_count       |-> CountPassed(results),
      failed_count       |-> Len(results) - CountPassed(results),
      category_breakdown |-> format_category_table(category_scores) ]

\* run_reporting, lines 76-83 and 94-105: what it hands to the reporting crew
ReportInputs(results, category_scores) ==
    [ given              |-> TRUE,
      pass_rate          |-> Format1(PassRate(results)),
      total_tests        |-> Len(results),
      passed_count       |-> CountPassed(results),
      failed_count       |-> Len(results) - CountPassed(results),
      category_breakdown |-> format_category_table(category_scores) ]

\* _generate_report stores run_reporting's string in quality_report
GenerateReport(method) ==
    /\ report_inputs' = ReportInputs(state.results, state.category_scores)
    /\ \E outcome \in ReportOutcomes :
          IF outcome = "raises"
          THEN Raises(method, "CrewException") /\ UNCHANGED state
          ELSE /\ state' = [state EXCEPT !.quality_report = outcome]
               /\ Returns(method, ReportReturn(outcome), "done")
               /\ UNCHANGED raised

generate_report ==
    /\ pc = "generate_report"
    /\ GenerateReport("generate_report")
    /\ UNCHANGED << Config, Aside, Loop, analysed, analysis_inputs >>

\* a generate_csv_report that reports whether or not there are results
generate_csv_report_unguarded ==
    /\ pc = "generate_csv_report"
    /\ GenerateReport("generate_csv_report")
    /\ UNCHANGED << Config, Aside, Loop, analysed, analysis_inputs >>

\* generate_csv_report reports only `if self.state.results`
generate_csv_report ==
    /\ pc = "generate_csv_report"
    /\ IF state.results # << >>
       THEN GenerateReport("generate_csv_report")
       ELSE /\ Returns("generate_csv_report", "None", "done")
            /\ UNCHANGED << state, raised, report_inputs >>
    /\ UNCHANGED << Config, Aside, Loop, analysed, analysis_inputs >>

\* ------------------------------------------------------------ specification
Next ==
    \/ kickoff
    \/ run_flow
    \/ route_by_mode
    \/ mode_router
    \/ load_tests_from_csv
    \/ discover_rag_data
    \/ generate_prompt_suggestions
    \/ check_prompt_only_exit
    \/ prompt_exit_router
    \/ output_prompt_suggestions
    \/ generate_test_cases
    \/ check_generate_only_exit
    \/ generate_exit_router
    \/ output_test_cases
    \/ execute_tests
    \/ execute_csv_tests
    \/ evaluate_results
    \/ evaluate_csv_results
    \/ generate_report
    \/ generate_csv_report

Spec == Init /\ [][Next]_vars

\* ------------------------------------- calculate_category_scores, taken alone
\* the rationales of the results: one that [:100] keeps whole, one that it cuts
Rationales == { [tag |-> "short", len |-> 40], [tag |-> "long", len |-> 250] }

\* TestResults as EXECUTE records them, rationale included
AggResults ==
    [test_case : TestCasePool, passed : BOOLEAN, evaluation_rationale : Rationales]

AggInit ==
    /\ FlowIdle /\ DiscoveryIdle /\ ToolsIdle
    /\ agg_results \in UNION { [1..n -> AggResults] : n \in 0..MaxAggLen }
    /\ agg_scores = << >>
    /\ agg_calls = 0

\* an evaluation pass that adds its scores to those of the pass before
evaluation_pass_accumulating ==
    /\ agg_calls < MaxCalls
    /\ agg_scores' = agg_scores \o calculate_category_scores(agg_results)
    /\ agg_calls' = agg_calls + 1
    /\ UNCHANGED << agg_results, Flow, Discovery, Tools >>

\* an evaluation pass, _run_evaluation line 594:
\* category_scores = calculate_category_scores(results)
evaluation_pass ==
    /\ agg_calls < MaxCalls
    /\ agg_scores' = calculate_category_scores(agg_results)
    /\ agg_calls' = agg_calls + 1
    /\ UNCHANGED << agg_results, Flow, Discovery, Tools >>

\* between two passes a further result is recorded
record_result ==
    /\ Len(agg_results) < MaxAggLen
    /\ \E result \in AggResults : agg_results' = Append(agg_results, result)
    /\ UNCHANGED << agg_scores, agg_calls, Flow, Discovery, Tools >>

AggNext ==
    \/ evaluation_pass
    \/ record_result

AggSpec == AggInit /\ [][AggNext]_vars

\* ----------------------------------------------- run_discovery, taken alone
\* What the discovery crew does at an attempt, by the case of run_discovery
\* and _is_valid_discovery_output it selects:
\*   raises            kickoff raises
\*   no_json           the text holds no JSON that parses
\*   object_domains    a JSON object with a "domains" key
\*   object_estimate   a JSON object with a "total_coverage_estimate" key only
\*   object_other      a JSON object with neither key
\*   fenced_array      a fenced block holding the JSON array ["domains"]
\*   fenced_number     a fenced block holding a JSON number
CrewOutputs ==
    {"raises", "no_json", "object_domains", "object_estimate", "object_other",
     "fenced_array", "fenced_number"}

\* _is_valid_discovery_output: `"domains" in data or "total_coverage_estimate"
\* in data` on whatever json.loads returned: a key test on an object, a
\* membership test on an array, a TypeError on a number (which the function
\* does not catch)
is_valid_discovery_output(result) ==
    CASE result \in {"object_domains", "object_estimate", "fenced_array"} -> "True"
      [] result = "fenced_number" -> "TypeError"
      [] OTHER -> "False"

DiscInit ==
    /\ FlowIdle /\ AggregatorIdle /\ ToolsIdle
    /\ disc_pc = "attempt"
    /\ max_retries \in 0..MaxRetries
    /\ crew_outputs \in [1..max_retries -> CrewOutputs]
    /\ attempt = 0
    /\ fallbacks = 0
    /\ disc_result = "none"
    /\ topics_result = NoText
    /\ fallback_domains = << >>
    /\ rag_summary = NoRagSummary

\* one turn of `for attempt in range(max_retries)`: the crew's output is
\* returned if it is valid; an exception of the crew or of the check is caught
discovery_attempt ==
    /\ disc_pc = "attempt"
    /\ attempt < max_retries
    /\ attempt' = attempt + 1
    /\ LET result == crew_outputs[attempt + 1]
       IN  IF result # "raises" /\ is_valid_discovery_output(result) = "True"
           THEN disc_pc' = "returned" /\ disc_result' = result
           ELSE UNCHANGED << disc_pc, disc_result >>
    /\ UNCHANGED << max_retries, crew_outputs, fallbacks, topics_result,
                    fallback_domains, rag_summary, Flow, Aggregator, Tools >>

\* the words _create_fallback_summary looks for in the text of its RAG query
TopicWords == {"Employee Experience", "GenAI", "Advisory", "Data"}

\* what rag_tool._run gives the fallback: search results, the empty text or
\* an error text, each with whatever topic words it happens to contain; or
\* the query raises, which _run lets through for a response that is not of
\* the expected shape
TopicsResults ==
    [kind : {"results", "error"}, contains : SUBSET TopicWords]
        \cup { [kind |-> "empty", contains |-> {}],
               [kind |-> "raises", contains |-> {}] }

\* _create_fallback_summary, lines 87-126: a domain per topic found, and a
\* generic one if none was
FallbackDomains(text) ==
    LET domains ==
          (IF "Employee Experience" \in text.contains
           THEN << "Employee Experience" >> ELSE << >>)
          \o (IF "GenAI" \in text.contains \/ "Advisory" \in text.contains
              THEN << "GenAI Advisory" >> ELSE << >>)
          \o (IF "Data" \in text.contains THEN << "Data Foundation" >> ELSE << >>)
    IN  IF domains = << >> THEN << "General Knowledge" >> ELSE domains

\* after the loop: return _create_fallback_summary(rag_tool), whose RAG query
\* is made outside any try
create_fallback_summary ==
    /\ disc_pc = "attempt"
    /\ attempt = max_retries
    /\ fallbacks' = fallbacks + 1
    /\ \E text \in TopicsResults :
          /\ topics_result' = text
          /\ IF text.kind = "raises"
             THEN disc_pc' = "raised" /\ UNCHANGED << disc_result, fallback_domains >>
             ELSE /\ disc_pc' = "returned"
                  /\ disc_result' = "fallback_summary"
                  /\ fallback_domains' = FallbackDomains(text)
    /\ UNCHANGED << max_retries, crew_outputs, attempt, rag_summary, Flow, Aggregator, Tools >>

\* the domains a discovery crew may list in a JSON object of its own
CrewDomains == { << >>, << "Onboarding" >>, << "Onboarding", "Payroll" >> }

\* discover_rag_data, lines 300-320: the JSON text is cut out and parsed, and
\* RagSummary(**data) is made of it; if any of this raises, the RagSummary
\* holds the first 500 characters of the text and no domain.  The fallback's
\* text is json.dumps of a dict whose domains are well-formed, so it parses
\* back to the same domains (the key quality_notes is ignored).
RagSummaries(result) ==
    CASE result = "fallback_summary" ->
            { [source |-> "parsed", domains |-> fallback_domains] }
      [] result = "object_domains" ->
            [source : {"parsed"}, domains : CrewDomains]
                \cup { [source |-> "raw_text", domains |-> << >>] }
      [] result = "object_estimate" ->
            { [source |-> "parsed", domains |-> << >>] }
      [] OTHER ->
            { [source |-> "raw_text", domains |-> << >>] }

parse_rag_summary ==
    /\ disc_pc = "returned"
    /\ disc_pc' = "stored"
    /\ rag_summary' \in RagSummaries(disc_result)
    /\ UNCHANGED << max_retries, crew_outputs, attempt, fallbacks, disc_result,
                    topics_result, fallback_domains, Flow, Aggregator, Tools >>

DiscNext ==
    \/ discovery_attempt
    \/ create_fallback_summary
    \/ parse_rag_summary

DiscSpec == DiscInit /\ [][DiscNext]_vars

\* ------------------------------------------------- test-case construction
\* The values a category or difficulty field can hold: a member's name, a
\* member's name in capitals, a string that names no member, and a value that
\* is no string (a JSON null or number; the None that csv.DictReader puts in
\* the fields a short row lacks)
CategoryValues == {"factual", "REASONING", "bogus", "not_a_string"}

DifficultyValues == {"hard", "bogus", "not_a_string"}

\* an item that is no JSON object
NotAnObject ==
    [kind |-> "not_object", category |-> "not_a_string",
     difficulty |-> "not_a_string", fields_ok |-> FALSE]

\* a JSON object or a CSV row; fields_ok: TestCase(...) accepts its id,
\* question, expected_answer and rationale
Objects ==
    [kind : {"object"}, category : CategoryValues, difficulty : DifficultyValues,
     fields_ok : BOOLEAN]

\* lines 140-144, flow.py 252-256: TestCategory(value.lower()), FACTUAL on
\* ValueError; .lower() of a value that is no string raises AttributeError
ParseCategory(value) ==
    IF value = "not_a_string" THEN "AttributeError"
    ELSE IF Lower(value) \in TestCategory THEN Lower(value) ELSE "factual"

\* lines 147-151, flow.py 259-263
ParseDifficulty(value) ==
    IF value = "not_a_string" THEN "AttributeError"
    ELSE IF Lower(value) \in TestDifficulty THEN Lower(value) ELSE "medium"

\* the body of the try of _parse_single_test_case, and of the row loop of
\* load_tests_from_csv: the TestCase of item number k, or the exception
BuildTestCase(item, k) ==
    IF item.kind # "object" \/ ParseCategory(item.category) = "AttributeError"
       \/ ParseDifficulty(item.difficulty) = "AttributeError"
    THEN [raised |-> "AttributeError"]
    ELSE IF ~item.fields_ok
    THEN [raised |-> "ValidationError"]
    ELSE [raised |-> "none", from |-> k,
          category |-> ParseCategory(item.category),
          difficulty |-> ParseDifficulty(item.difficulty)]

\* _parse_single_test_case: `except Exception: return None`; None is << >>
parse_single_test_case(item, k) ==
    IF BuildTestCase(item, k).raised = "none"
    THEN << [from       |-> k,
             category   |-> BuildTestCase(item, k).category,
             difficulty |-> BuildTestCase(item, k).difficulty] >>
    ELSE << >>

\* a loop that gives up everything at an item it cannot construct
KeepCaseOrReset(test_cases, test_case) ==
    IF test_case = << >> THEN << >> ELSE test_cases \o test_case

\* parse_test_cases, lines 125-127: `if test_case: test_cases.append(test_case)`
KeepCase(test_cases, test_case) == test_cases \o test_case

ItemLists(items) == UNION { [1..n -> items] : n \in 0..MaxItems }

ParseInit ==
    /\ RunnerIdle /\ RagIdle /\ SwapIdle /\ OverrideIdle /\ RepairIdle /\ LoaderIdle /\ SessionIdle
    /\ FlowIdle /\ AggregatorIdle /\ DiscoveryIdle /\ MainIdle
    /\ \/ /\ parse_source = "generated"
          /\ \/ /\ raw_output = "array"
                /\ parse_items \in ItemLists(Objects \cup {NotAnObject})
             \/ /\ raw_output \in {"object", "unparseable"}
                /\ parse_items = << >>
       \/ /\ parse_source = "csv"
          /\ \/ /\ raw_output = "rows"
                /\ parse_items \in ItemLists(Objects)
             \/ /\ raw_output \in {"missing", "unreadable"}
                /\ parse_items = << >>
    /\ parse_index = 0
    /\ parse_cases = << >>
    /\ parse_pc = "loop"
    /\ parse_result = << >>

\* one turn of `for item in data`, lines 124-127
parse_item ==
    /\ parse_source = "generated" /\ parse_pc = "loop"
    /\ raw_output = "array"
    /\ parse_index < Len(parse_items)
    /\ parse_index' = parse_index + 1
    /\ parse_cases' =
          KeepCase(parse_cases,
                   parse_single_test_case(parse_items[parse_index + 1], parse_index + 1))
    /\ UNCHANGED << parse_source, raw_output, parse_items, parse_pc, parse_result,
                    ParserRest >>

\* `return test_cases`, line 133: after the loop; at once when json.loads
\* raised (caught, line 129) or gave something that is no list (line 123)
parse_return ==
    /\ parse_source = "generated" /\ parse_pc = "loop"
    /\ raw_output = "array" => parse_index = Len(parse_items)
    /\ parse_pc' = "returned"
    /\ parse_result' = parse_cases
    /\ UNCHANGED << parse_source, raw_output, parse_items, parse_index, parse_cases,
                    ParserRest >>

\* flow.py 248 and 277-281: open raises FileNotFoundError, or another
\* exception, caught at the end of the method
load_csv_open ==
    /\ parse_source = "csv" /\ parse_pc = "loop"
    /\ raw_output \in {"missing", "unreadable"}
    /\ parse_pc' = "failed"
    /\ UNCHANGED << parse_source, raw_output, parse_items, parse_index, parse_cases,
                    parse_result, ParserRest >>

\* a row loop that assigns the list to the state after every row
load_csv_row_assigning ==
    /\ parse_source = "csv" /\ parse_pc = "loop"
    /\ raw_output = "rows"
    /\ parse_index < Len(parse_items)
    /\ parse_index' = parse_index + 1
    /\ LET test_case == BuildTestCase(parse_items[parse_index + 1], parse_index + 1)
       IN  IF test_case.raised = "none"
           THEN /\ parse_cases' =
                      Append(parse_cases,
                             [from       |-> test_case.from,
                              category   |-> test_case.category,
                              difficulty |-> test_case.difficulty])
                /\ UNCHANGED parse_pc
           ELSE parse_pc' = "failed" /\ UNCHANGED parse_cases
    /\ parse_result' = parse_cases'
    /\ UNCHANGED << parse_source, raw_output, parse_items, ParserRest >>

\* one turn of `for row in reader`, flow.py 250-273: an exception of the
\* conversion is caught outside the loop (lines 280-281), which ends the load
load_csv_row ==
    /\ parse_source = "csv" /\ parse_pc = "loop"
    /\ raw_output = "rows"
    /\ parse_index < Len(parse_items)
    /\ parse_index' = parse_index + 1
    /\ LET test_case == BuildTestCase(parse_items[parse_index + 1], parse_index + 1)
       IN  IF test_case.raised = "none"
           THEN /\ parse_cases' =
                      Append(parse_cases,
                             [from       |-> test_case.from,
                              category   |-> test_case.category,
                              difficulty |-> test_case.difficulty])
                /\ UNCHANGED parse_pc
           ELSE parse_pc' = "failed" /\ UNCHANGED parse_cases
    /\ UNCHANGED << parse_source, raw_output, parse_items, parse_result,
                    ParserRest >>

\* flow.py 275: self.state.test_cases = test_cases
load_csv_end ==
    /\ parse_source = "csv" /\ parse_pc = "loop"
    /\ raw_output = "rows"
    /\ parse_index = Len(parse_items)
    /\ parse_pc' = "returned"
    /\ parse_result' = parse_cases
    /\ UNCHANGED << parse_source, raw_output, parse_items, parse_index, parse_cases,
                    ParserRest >>

ParseNext ==
    \/ parse_item
    \/ parse_return
    \/ load_csv_open
    \/ load_csv_row
    \/ load_csv_end

ParseSpec == ParseInit /\ [][ParseNext]_vars

\* ------------------------------------------------------------------- main
\* the command lines: --run-mode (a choice, or a word that is none),
\* --test-csv, --num-tests (digits, or a word), --output, --target-api-url
CommandLines ==
    [ run_mode       : valid_modes \cup {"bogus"},
      test_csv       : {"", "tests.csv"},
      num_tests      : {"20", "many"},
      output         : {"", "report.md"},
      target_api_url : {"", "https://crew"} ]

MainInit ==
    /\ FlowIdle /\ AggregatorIdle /\ DiscoveryIdle /\ ParserIdle /\ RunnerIdle /\ RagIdle
    /\ SwapIdle /\ OverrideIdle /\ RepairIdle /\ LoaderIdle /\ SessionIdle
    /\ main_pc = "parse_args"
    /\ cli_args \in CommandLines
    /\ main_error = "none"
    /\ exit_status = 0
    /\ flow_constructed = FALSE
    /\ flow_result = "none"

\* parser.error(message): prints the usage and exits with status 2; an
\* uncaught exception ends the process with status 1, a normal end with 0
ParserError(message) ==
    /\ main_pc' = "exited"
    /\ main_error' = message
    /\ exit_status' = 2

\* parser.parse_args(), line 90: --run-mode has choices, --num-tests type=int
parse_args ==
    /\ main_pc = "parse_args"
    /\ IF cli_args.run_mode \notin valid_modes
       THEN ParserError("invalid choice")
       ELSE IF cli_args.num_tests = "many"
       THEN ParserError("invalid int value")
       ELSE main_pc' = "validate" /\ UNCHANGED << main_error, exit_status >>
    /\ UNCHANGED << cli_args, flow_constructed, flow_result, MainRest >>

\* a main that does not look at --test-csv
validate_unchecked ==
    /\ main_pc = "validate"
    /\ main_pc' = "run_flow"
    /\ UNCHANGED << cli_args, main_error, exit_status, flow_constructed, flow_result,
                    MainRest >>

\* lines 93-94: execute_only requires --test-csv
validate ==
    /\ main_pc = "validate"
    /\ IF cli_args.run_mode = "execute_only" /\ cli_args.test_csv = ""
       THEN ParserError("--test-csv is required")
       ELSE main_pc' = "run_flow" /\ UNCHANGED << main_error, exit_status >>
    /\ UNCHANGED << cli_args, flow_constructed, flow_result, MainRest >>

\* lines 97-104: run_flow constructs the flow and runs it; it returns a
\* string, or None (what kickoff gives after generate_report), or raises
RunFlowResults == {"text", "None", "raises"}

main_run_flow ==
    /\ main_pc = "run_flow"
    /\ flow_constructed' = TRUE
    /\ \E result \in RunFlowResults :
          /\ flow_result' = result
          /\ IF result = "raises"
             THEN main_pc' = "exited" /\ exit_status' = 1
             ELSE main_pc' = "output" /\ UNCHANGED exit_status
    /\ UNCHANGED << cli_args, main_error, MainRest >>

\* lines 107-112: f.write(result) if --output was given; f.write(None)
\* raises TypeError
main_output ==
    /\ main_pc = "output"
    /\ main_pc' = "exited"
    /\ exit_status' = IF cli_args.output # "" /\ flow_result = "None"
                      THEN 1 ELSE 0
    /\ UNCHANGED << cli_args, main_error, flow_constructed, flow_result, MainRest >>

MainNext ==
    \/ parse_args
    \/ validate
    \/ main_run_flow
    \/ main_output

MainSpec == MainInit /\ [][MainNext]_vars

\* ------------------------------------------------------- CrewRunnerTool._run
\* crew_runner.py: one call of _run, a step per request, wait or subprocess
RunnerInit ==
    /\ FlowIdle /\ AggregatorIdle /\ DiscoveryIdle /\ ParserIdle /\ MainIdle /\ RagIdle
    /\ SwapIdle /\ OverrideIdle /\ RepairIdle /\ LoaderIdle /\ SessionIdle
    /\ run_pc = "run"
    /\ run_tool \in RunnerConfigs
    /\ run_token \in BOOLEAN
    /\ api_timeout \in 0..MaxTimeout
    /\ api_poll_interval \in 0..MaxInterval
    /\ http_requests = 0
    /\ subprocesses = 0
    /\ elapsed = 0
    /\ last_status = "none"
    /\ run_result = "none"

\* a _run_api that does not look at the token
RunApiChecksUrlOnly(tool, token) ==
    IF ~tool.api_url THEN "api_url not configured" ELSE "ok"

\* _run_api, lines 54-59: the two checks before anything is sent
RunApiChecks(tool, token) ==
    IF ~token THEN "api_token_env_var environment variable not set"
    ELSE IF ~tool.api_url THEN "api_url not configured"
    ELSE "ok"

\* _run_local, lines 120-124: the two checks before the subprocess
RunLocalChecks(tool) ==
    IF ~tool.crew_module THEN "crew_module not configured for local mode"
    ELSE IF ~tool.crew_path THEN "crew_path not configured for local mode"
    ELSE "ok"

\* _run, lines 47-50, and the checks of the branch taken: raise RuntimeError
\* with the message, or go on to the request or the subprocess
run ==
    /\ run_pc = "run"
    /\ LET check == IF run_tool.mode = "api" THEN RunApiChecks(run_tool, run_token)
                                             ELSE RunLocalChecks(run_tool)
       IN IF check # "ok"
          THEN run_pc' = "raised" /\ run_result' = check
          ELSE /\ run_pc' = IF run_tool.mode = "api" THEN "post" ELSE "subprocess"
               /\ UNCHANGED run_result
    /\ UNCHANGED << run_tool, run_token, api_timeout, api_poll_interval, http_requests,
                    subprocesses, elapsed, last_status, RunnerRest >>

\* _run_api, lines 71-89: the kickoff request. A RequestException gives
\* "API Error: ", a kickoff_id starts the polling (start_time, line 95), any
\* other object is a synchronous result, a body that is JSON but no object
\* makes kickoff_data.get raise AttributeError
run_api ==
    /\ run_pc = "post"
    /\ http_requests' = http_requests + 1
    /\ \E response \in {"RequestException", "kickoff_id", "result", "not_an_object"} :
          CASE response = "RequestException" ->
                  run_pc' = "returned" /\ run_result' = "API Error: "
            [] response = "kickoff_id" ->
                  run_pc' = "poll" /\ UNCHANGED run_result
            [] response = "result" ->
                  run_pc' = "returned" /\ run_result' = "result"
            [] response = "not_an_object" ->
                  run_pc' = "raised" /\ run_result' = "AttributeError"
    /\ elapsed' = 0
    /\ UNCHANGED << run_tool, run_token, api_timeout, api_poll_interval, subprocesses,
                    last_status, RunnerRest >>

\* what a status request can give: the "status" of the object returned
\* ("unrecognised" for any other value, a missing one included), a
\* RequestException, or a body that is JSON but no object
PollStatuses ==
    {"completed", "failed", "pending", "running", "unrecognised",
     "RequestException", "not_an_object"}

\* a loop that checks again at once on a status it does not know
SleepAfterKnown(status, interval) ==
    IF status \in {"pending", "running"} THEN interval ELSE 0

\* lines 108-112: time.sleep(self.api_poll_interval) on pending, running and
\* on any status that is none of the four
SleepAfter(status, interval) ==
    IF status \in {"pending", "running", "unrecognised"} THEN interval ELSE 0

\* _poll_for_result, lines 97-114: one turn of the loop. The request takes
\* some time, at least a second here, and the sleep takes the interval
poll_for_result ==
    /\ run_pc = "poll"
    /\ elapsed < api_timeout
    /\ http_requests' = http_requests + 1
    /\ \E status \in PollStatuses, seconds \in 1..MaxRequestSeconds :
          /\ last_status' = status
          /\ elapsed' = elapsed + seconds + SleepAfter(status, api_poll_interval)
          /\ CASE status = "completed" ->
                     run_pc' = "returned" /\ run_result' = "result"
               [] status = "failed" ->
                     run_pc' = "returned" /\ run_result' = "Crew failed: "
               [] status = "RequestException" ->
                     run_pc' = "returned" /\ run_result' = "Poll Error: "
               [] status = "not_an_object" ->
                     run_pc' = "raised" /\ run_result' = "AttributeError"
               [] OTHER -> UNCHANGED << run_pc, run_result >>
    /\ UNCHANGED << run_tool, run_token, api_timeout, api_poll_interval, subprocesses,
                    RunnerRest >>

\* lines 97 and 116: the loop condition fails
poll_timeout ==
    /\ run_pc = "poll"
    /\ elapsed >= api_timeout
    /\ run_pc' = "returned"
    /\ run_result' = "Timeout: "
    /\ UNCHANGED << run_tool, run_token, api_timeout, api_poll_interval, http_requests,
                    subprocesses, elapsed, last_status, RunnerRest >>

\* _run_local, lines 126-214: the subprocess; every failure of it is a string
run_local ==
    /\ run_pc = "subprocess"
    /\ subprocesses' = subprocesses + 1
    /\ run_pc' = "returned"
    /\ run_result' \in {"result", "Import Error: ", "Execution Error: ",
                        "Timeout Error: ", "Subprocess Error: "}
    /\ UNCHANGED << run_tool, run_token, api_timeout, api_poll_interval, http_requests,
                    elapsed, last_status, RunnerRest >>

RunnerNext ==
    \/ run
    \/ run_api
    \/ poll_for_result
    \/ poll_timeout
    \/ run_local

RunnerSpec == RunnerInit /\ [][RunnerNext]_vars

\* _run is one synchronous call: while it has a step to take it takes it
RunnerLiveSpec == RunnerSpec /\ WF_vars(RunnerNext)

\* --------------------------------------------------------- RagQueryTool._run
\* crewai_test_suite/tools/rag_query.py: one call of _run
\* the tools create_rag_query_from_config builds, and one built with a
\* backend that is neither
RagTools ==
    { [backend |-> "ragengine", mcp_url |-> u, corpus |-> c, qdrant_url |-> FALSE,
       collection |-> FALSE, max_results |-> n] :
          u \in BOOLEAN, c \in BOOLEAN, n \in 1..MaxNumResults }
    \cup
    { [backend |-> "qdrant", mcp_url |-> FALSE, corpus |-> FALSE, qdrant_url |-> u,
       collection |-> c, max_results |-> n] :
          u \in BOOLEAN, c \in BOOLEAN, n \in 1..MaxNumResults }
    \cup
    { [backend |-> "other", mcp_url |-> FALSE, corpus |-> FALSE, qdrant_url |-> FALSE,
       collection |-> FALSE, max_results |-> 1] }

RagInit ==
    /\ FlowIdle /\ AggregatorIdle /\ DiscoveryIdle /\ ParserIdle /\ MainIdle
    /\ RunnerIdle /\ SwapIdle /\ OverrideIdle /\ RepairIdle /\ LoaderIdle /\ SessionIdle
    /\ rag_pc = "run"
    /\ rag_tool \in RagTools
    /\ rag_token \in BOOLEAN
    /\ num_results \in 1..MaxNumResults
    /\ rag_requested = 0
    /\ rag_output = NoOutput

\* the lengths a chunk's or a point's text can have
TextChars == {100, 500, 2000}

\* _format_rag_results, line 219 and line 227
MaxChunks == 3
ExcerptChars == 500
\* _format_rag_results, line 238
RawChars == 1000

RagReturns(prefix, items, excerpt) ==
    /\ rag_pc' = "returned"
    /\ rag_output' = [prefix |-> prefix, items |-> items, excerpt |-> excerpt]

\* _run, lines 50-57, with the settings each backend checks first
\* (lines 67-75, lines 244-248)
rag_run ==
    /\ rag_pc = "run"
    /\ LET limit == Min(num_results, rag_tool.max_results)
           missing ==
               CASE rag_tool.backend = "ragengine" ->
                       ~rag_token \/ ~rag_tool.mcp_url \/ ~rag_tool.corpus
                 [] rag_tool.backend = "qdrant" ->
                       ~rag_tool.qdrant_url \/ ~rag_tool.collection
                 [] OTHER -> FALSE
       IN CASE rag_tool.backend \notin {"ragengine", "qdrant"} ->
                  RagReturns("Unknown backend:", 0, 0) /\ UNCHANGED rag_requested
            [] missing ->
                  RagReturns("Error:", 0, 0) /\ UNCHANGED rag_requested
            [] OTHER ->
                  /\ rag_pc' = rag_tool.backend
                  /\ rag_requested' = limit
                  /\ UNCHANGED rag_output
    /\ UNCHANGED << rag_tool, rag_token, num_results, RagRest >>

\* _format_rag_results, lines 215-234: the first 3 chunks, 500 characters of
\* each (the "..." that marks the cut is not counted)
format_rag_results(raw) ==
    [prefix |-> "## Search Results for:", items |-> Min(MaxChunks, raw.chunks),
     excerpt |-> Min(ExcerptChars, raw.chars)]

\* _query_ragengine, lines 113-199. What the session gives, and what the
\* text item of the reply holds (_format_rag_results, lines 206-238)
query_ragengine ==
    /\ rag_pc = "ragengine"
    /\ \/ RagReturns("Error:", 0, 0)            \* no session; no reply; Timeout
       \/ RagReturns("RAG Engine Error:", 0, 0) \* any other RequestException
       \/ RagReturns("RAG Error:", 0, 0)        \* isError; success is false
       \/ RagReturns("No results found", 0, 0)  \* no text item; no chunks
       \/ \E chars \in TextChars :             \* a text that is not JSON
             RagReturns("## Search Results", 1, Min(RawChars, chars))
       \/ /\ rag_pc' = "raised"                 \* JSON that is no object:
          /\ rag_output' = NoOutput             \* data.get raises AttributeError
       \/ \E chunks \in 1..rag_requested, chars \in TextChars :
             /\ rag_pc' = "returned"
             /\ rag_output' = format_rag_results([chunks |-> chunks, chars |-> chars])
    /\ UNCHANGED << rag_tool, rag_token, num_results, rag_requested, RagRest >>

\* _query_qdrant, lines 250-291: every point returned is given, with its
\* whole text
query_qdrant ==
    /\ rag_pc = "qdrant"
    /\ \/ RagReturns("Error:", 0, 0)            \* no embedding
       \/ RagReturns("Qdrant Error:", 0, 0)     \* RequestException
       \/ RagReturns("No results found", 0, 0)  \* no points
       \/ /\ rag_pc' = "raised"                 \* JSON that is no object
          /\ rag_output' = NoOutput
       \/ \E points \in 1..rag_requested, chars \in TextChars :
             RagReturns("[Score:", points, chars)
    /\ UNCHANGED << rag_tool, rag_token, num_results, rag_requested, RagRest >>

RagNext ==
    \/ rag_run
    \/ query_ragengine
    \/ query_qdrant

RagSpec == RagInit /\ [][RagNext]_vars

\* ------------------------------------------- kickoff: the RAG configuration
\* flow.py, lines 115-161, taken alone
\* the inputs: RAG_BACKEND (absent, in lower case, in mixed case, a third
\* name) and the settings, each given or not
KickoffRagInputs ==
    [ KEYS                  : {TRUE},
      RAG_BACKEND           : {"", "ragengine", "RAGEngine", "qdrant", "other"},
      RAG_MCP_URL           : {"", "https://mcp"},
      RAG_MCP_TOKEN         : {"", "token"},
      RAG_CORPUS            : {"", "corpus"},
      RAG_QDRANT_URL        : {"", "https://qdrant"},
      RAG_QDRANT_COLLECTION : {"", "collection"},
      RAG_ENDPOINT          : {"", "https://legacy"} ]
    \cup {NoInputs}

\* __init__, line 57: the tool create_rag_query_from_config built
ConstructedTools ==
    { RagQueryTool("config", "ragengine", "https://env-mcp", "env-corpus", "", ""),
      RagQueryTool("config", "ragengine", "", "", "", ""),
      RagQueryTool("config", "qdrant", "", "", "https://env-qdrant", "env-collection") }

SwapInit ==
    /\ FlowIdle /\ AggregatorIdle /\ DiscoveryIdle /\ ParserIdle /\ MainIdle
    /\ RunnerIdle /\ RagIdle /\ OverrideIdle /\ RepairIdle /\ LoaderIdle /\ SessionIdle
    /\ kick_pc = "mapping"
    /\ kick_inputs \in KickoffRagInputs
    /\ kick_locals = NoLocals
    /\ flow_rag_tool \in ConstructedTools
    /\ kick_env = {}

\* lines 80 and 116-141: the locals, and the state attributes written. The
\* state model declares rag_backend and rag_endpoint but not rag_mcp_url
\* (line 138): whether that assignment raises depends on the library
kickoff_rag_config ==
    /\ kick_pc = "mapping"
    /\ IF ~kick_inputs.KEYS
       THEN kick_pc' = "mapped" /\ UNCHANGED kick_locals
       ELSE /\ kick_locals' =
                 [rag_backend |-> IF kick_inputs.RAG_BACKEND = "" THEN "ragengine"
                                  ELSE Lower(kick_inputs.RAG_BACKEND),
                  rag_mcp_url |-> IF kick_inputs.RAG_ENDPOINT # ""
                                     /\ kick_inputs.RAG_MCP_URL = ""
                                  THEN kick_inputs.RAG_ENDPOINT
                                  ELSE kick_inputs.RAG_MCP_URL]
            /\ kick_pc' \in {"swap", "raised"}
    /\ UNCHANGED << kick_inputs, flow_rag_tool, kick_env, SwapRest >>

\* a swap that asks for the URL alone
RagEngineCompleteUrlOnly(rag_backend, rag_mcp_url, rag_corpus) ==
    rag_backend = "ragengine" /\ rag_mcp_url # ""

\* line 144
RagEngineComplete(rag_backend, rag_mcp_url, rag_corpus) ==
    rag_backend = "ragengine" /\ rag_mcp_url # "" /\ rag_corpus # ""

\* line 153
QdrantComplete(rag_backend, rag_qdrant_url, rag_qdrant_collection) ==
    rag_backend = "qdrant" /\ rag_qdrant_url # "" /\ rag_qdrant_collection # ""

\* lines 144-161: the tool is rebuilt, and the token put in the environment
kickoff_rag_tool ==
    /\ kick_pc = "swap"
    /\ kick_pc' = "mapped"
    /\ CASE RagEngineComplete(kick_locals.rag_backend, kick_locals.rag_mcp_url,
                              kick_inputs.RAG_CORPUS) ->
               /\ flow_rag_tool' = RagQueryTool("kickoff", "ragengine",
                                        kick_locals.rag_mcp_url, kick_inputs.RAG_CORPUS,
                                        "", "")
               /\ kick_env' = IF kick_inputs.RAG_MCP_TOKEN # ""
                              THEN kick_env \cup {"PG_RAG_TOKEN"} ELSE kick_env
         [] QdrantComplete(kick_locals.rag_backend, kick_inputs.RAG_QDRANT_URL,
                           kick_inputs.RAG_QDRANT_COLLECTION) ->
               /\ flow_rag_tool' = RagQueryTool("kickoff", "qdrant", "", "",
                                        kick_inputs.RAG_QDRANT_URL,
                                        kick_inputs.RAG_QDRANT_COLLECTION)
               /\ UNCHANGED kick_env
         [] OTHER -> UNCHANGED << flow_rag_tool, kick_env >>
    /\ UNCHANGED << kick_inputs, kick_locals, SwapRest >>

SwapNext ==
    \/ kickoff_rag_config
    \/ kickoff_rag_tool

SwapSpec == SwapInit /\ [][SwapNext]_vars

\* ------------------------------------------------------ _apply_env_overrides
\* config/loader.py, lines 55-123. A key is the words that underscores
\* separate in it; a key path is the keys from the top of the settings down
\* to a value; the settings are a value for every key path in them
target_mode        == << <<"target">>, <<"mode">> >>
target_api_timeout == << <<"target">>, <<"api", "timeout">> >>
llm_model          == << <<"llm">>, <<"model">> >>
llm_model_name     == << <<"llm">>, <<"model">>, <<"name">> >>
evaluation_judge_model == << <<"evaluation">>, <<"judge">>, <<"model">> >>

\* what yaml.safe_load gives for the settings files taken
SettingsFiles ==
    { ( << <<"target">> >> :> DictValue )
        @@ ( target_mode :> [type |-> "str", text |-> "api"] )
        @@ ( target_api_timeout :> [type |-> "int", text |-> "300"] ),
      ( << <<"llm">> >> :> DictValue )
        @@ ( llm_model :> [type |-> "str", text |-> "gemini"] ),
      ( << <<"evaluation">> >> :> DictValue )
        @@ ( << <<"evaluation">>, <<"judge">> >> :> DictValue )
        @@ ( evaluation_judge_model :> [type |-> "str", text |-> "gemini"] ) }

\* the key paths an override is asked for
KeyPaths ==
    {target_mode, target_api_timeout, llm_model_name, evaluation_judge_model}

\* the name PREFIX_K1_..._KN, after the prefix is cut off, the rest lowered
\* and split at the underscores (line 74): the words of the keys, in a row
RECURSIVE EnvName(_)
EnvName(path) == IF path = << >> THEN << >> ELSE Head(path) \o EnvName(Tail(path))

\* _parse_value, lines 94-123: bool, then int, then float, then str
parse_value(value) ==
    CASE value \in {"true", "yes", "1"}  -> [type |-> "bool", text |-> "True"]
      [] value \in {"false", "no", "0"}  -> [type |-> "bool", text |-> "False"]
      [] value \in {"42"}                -> [type |-> "int", text |-> value]
      [] value \in {"3.14"}              -> [type |-> "float", text |-> value]
      [] OTHER                           -> [type |-> "str", text |-> value]

\* the variables of the environment: with the prefix or without, the words
\* after the prefix, the value
EnvVars ==
    { [prefixed |-> TRUE, parts |-> n, value |-> v] :
          n \in {EnvName(p) : p \in KeyPaths} \cup {<<"debug">>},
          v \in {"true", "0", "42", "3.14", "local"} }
    \cup { [prefixed |-> FALSE, parts |-> <<"path">>, value |-> "local"] }

Environments ==
    { e \in UNION { [1..n -> EnvVars] : n \in 0..MaxEnv } :
          \A a, b \in DOMAIN e :
              (e[a].parts = e[b].parts /\ e[a].prefixed = e[b].prefixed) => a = b }

OverrideInit ==
    /\ FlowIdle /\ AggregatorIdle /\ DiscoveryIdle /\ ParserIdle /\ MainIdle
    /\ RunnerIdle /\ RagIdle /\ SwapIdle /\ RepairIdle /\ LoaderIdle /\ SessionIdle
    /\ ov_pc = "loop"
    /\ ov_settings \in SettingsFiles
    /\ ov_environ \in Environments
    /\ ov_index = 0

\* the dicts gone into after j parts: each part is taken as a key
Visited(parts, j) == [k \in 1..j |-> << parts[k] >>]

IsUnder(p, q) == Len(p) > Len(q) /\ SubSeq(p, 1, Len(q)) = q

\* lines 80-89: go down a dict per part but the last, making the dicts that
\* are not there and giving up at a value that is no dict; then set the
\* last part in the dict arrived at
RECURSIVE Navigate(_, _, _, _)
Navigate(settings, parts, value, j) ==
    IF j = Len(parts) - 1
    THEN LET leaf == Visited(parts, Len(parts))
             kept == { p \in DOMAIN settings : ~IsUnder(p, leaf) /\ p # leaf }
         IN  [p \in kept \cup {leaf} |->
                  IF p = leaf THEN parse_value(value) ELSE settings[p]]
    ELSE LET part == Visited(parts, j + 1)
             made == IF part \in DOMAIN settings THEN settings
                     ELSE [p \in DOMAIN settings \cup {part} |->
                              IF p = part THEN DictValue ELSE settings[p]]
         IN  IF made[part].type # "dict" THEN made
             ELSE Navigate(made, parts, value, j + 1)

\* lines 69-89: one turn of the loop over os.environ
apply_env_override ==
    /\ ov_pc = "loop"
    /\ ov_index < Len(ov_environ)
    /\ ov_index' = ov_index + 1
    /\ LET var == ov_environ[ov_index + 1]
       IN  ov_settings' = IF ~var.prefixed \/ Len(var.parts) < 2 THEN ov_settings
                          ELSE Navigate(ov_settings, var.parts, var.value, 0)
    /\ UNCHANGED << ov_pc, ov_environ, OverrideRest >>

\* line 91
apply_env_return ==
    /\ ov_pc = "loop"
    /\ ov_index = Len(ov_environ)
    /\ ov_pc' = "returned"
    /\ UNCHANGED << ov_settings, ov_environ, ov_index, OverrideRest >>

OverrideNext ==
    \/ apply_env_override
    \/ apply_env_return

OverrideSpec == OverrideInit /\ [][OverrideNext]_vars

\* -------------------------------------- EvaluatorTool._call_llm: the parsing
\* crewai_test_suite/tools/evaluator.py, lines 157-220. A text is its tokens:
\* braces, quotes, colons, commas, the fences of a code block (three
\* backticks, with json after them or without), and the runs of other
\* characters between them
Quote == "'"

\* {"passed": true, "score": 0.75, "rationale": "Good but incomplete"}
Reply ==
    << "{", Quote, "passed", Quote, ":", "true", ",",
       Quote, "score", Quote, ":", "0.75", ",",
       Quote, "rationale", Quote, ":", Quote, "Good but incomp", "lete", Quote, "}" >>

\* the reply cut after any token, bare or in a code block
Contents ==
    { SubSeq(Reply, 1, n) : n \in 0..Len(Reply) }
    \cup { <<"fence json">> \o SubSeq(Reply, 1, n) : n \in 0..Len(Reply) }
    \cup { <<"fence json">> \o Reply \o <<"fence">>, <<"fence">> \o Reply \o <<"fence">>,
           <<"fence">> \o Reply }

RepairInit ==
    /\ FlowIdle /\ AggregatorIdle /\ DiscoveryIdle /\ ParserIdle /\ MainIdle
    /\ RunnerIdle /\ RagIdle /\ SwapIdle /\ OverrideIdle /\ LoaderIdle /\ SessionIdle
    /\ ev_pc = "extract"
    /\ ev_content \in Contents
    /\ ev_json = << >>
    /\ ev_result = NoEvaluation

Count(text, token) == Cardinality({ k \in DOMAIN text : text[k] = token })

Holds(text, tokens) ==
    \E k \in 0..(Len(text) - Len(tokens)) : SubSeq(text, k + 1, k + Len(tokens)) = tokens

\* text.split(token)[1] where the token is in the text, and [0]
SplitSecond(text, token) ==
    LET at   == CHOOSE k \in DOMAIN text :
                    text[k] = token /\ \A j \in 1..(k - 1) : text[j] # token
        rest == SubSeq(text, at + 1, Len(text))
        ends == { k \in DOMAIN rest : rest[k] = token }
    IN  IF ends = {} THEN rest
        ELSE SubSeq(rest, 1, (CHOOSE k \in ends : \A j \in ends : k <= j) - 1)

SplitFirst(text, token) ==
    LET ats == { k \in DOMAIN text : text[k] = token }
    IN  SubSeq(text, 1, (CHOOSE k \in ats : \A j \in ats : k <= j) - 1)

\* lines 160-175: the text inside the code block, if there is one
extract_json ==
    /\ ev_pc = "extract"
    /\ ev_pc' = "repair"
    /\ ev_json' =
          IF Count(ev_content, "fence json") > 0
          THEN LET inner == SplitSecond(ev_content, "fence json")
               IN  IF Count(inner, "fence") > 0 THEN SplitFirst(inner, "fence") ELSE inner
          ELSE IF Count(ev_content, "fence") > 0
          THEN SplitSecond(ev_content, "fence")
          ELSE ev_content
    /\ UNCHANGED << ev_content, ev_result, RepairRest >>

EndsWith(text, token) == text # << >> /\ text[Len(text)] = token

\* lines 179-190: the braces that are open are closed, and then, if the
\* text still does not end with a brace, an open string is closed
CompleteJson(json_str) ==
    LET braced == IF json_str # << >> /\ json_str[1] = "{" /\ ~EndsWith(json_str, "}")
                  THEN json_str \o
                       [k \in 1..(Count(json_str, "{") - Count(json_str, "}")) |-> "}"]
                  ELSE json_str
    IN  IF Holds(braced, << Quote, "rationale", Quote, ":" >>)
           /\ ~EndsWith(braced, "}")
           /\ Count(braced, Quote) % 2 # 0
        THEN braced \o << Quote, "}" >>
        ELSE braced

repair_json ==
    /\ ev_pc = "repair"
    /\ ev_pc' = "parse"
    /\ ev_json' = CompleteJson(ev_json)
    /\ UNCHANGED << ev_content, ev_result, RepairRest >>

\* json.loads on an object of string, number and boolean values: whether
\* the text is one, and its keys. Inside a string every token but the quote
\* is text
RECURSIVE Scan(_, _, _, _)
Scan(text, k, at, keys) ==
    IF k = Len(text) THEN [ok |-> at = "end", keys |-> keys]
    ELSE LET t    == text[k + 1]
             fail == [ok |-> FALSE, keys |-> {}]
         IN  CASE at = "start" ->
                    IF t = "{" THEN Scan(text, k + 1, "first_key", keys) ELSE fail
               [] at = "first_key" ->
                    IF t = Quote THEN Scan(text, k + 1, "in_key", keys)
                    ELSE IF t = "}" THEN Scan(text, k + 1, "end", keys) ELSE fail
               [] at = "next_key" ->
                    IF t = Quote THEN Scan(text, k + 1, "in_key", keys) ELSE fail
               [] at = "in_key" ->
                    IF t = Quote THEN Scan(text, k + 1, "colon", keys)
                    ELSE Scan(text, k + 1, "in_key", keys \cup {t})
               [] at = "colon" ->
                    IF t = ":" THEN Scan(text, k + 1, "value", keys) ELSE fail
               [] at = "value" ->
                    IF t = Quote THEN Scan(text, k + 1, "in_string", keys)
                    ELSE IF t \in {"true", "0.75"}
                    THEN Scan(text, k + 1, "after_value", keys) ELSE fail
               [] at = "in_string" ->
                    IF t = Quote THEN Scan(text, k + 1, "after_value", keys)
                    ELSE Scan(text, k + 1, "in_string", keys)
               [] at = "after_value" ->
                    IF t = "," THEN Scan(text, k + 1, "next_key", keys)
                    ELSE IF t = "}" THEN Scan(text, k + 1, "end", keys) ELSE fail
               [] OTHER -> fail

Loads(text) == Scan(text, 0, "start", {})

\* lines 192-220: json.loads and the three fields; if it raises, the score
\* the regular expression finds in content; if there is none, the fixed
\* result
parse_json ==
    /\ ev_pc = "parse"
    /\ ev_pc' = "returned"
    /\ ev_result' =
          IF Loads(ev_json).ok
          THEN [by |-> "json.loads", keys |-> Loads(ev_json).keys]
          ELSE IF Holds(ev_content, << Quote, "score", Quote, ":", "0.75" >>)
          THEN [by |-> "score_match", keys |-> {}]
          ELSE [by |-> "fallback", keys |-> {}]
    /\ UNCHANGED << ev_content, ev_json, RepairRest >>

RepairNext ==
    \/ extract_json
    \/ repair_json
    \/ parse_json

RepairSpec == RepairInit /\ [][RepairNext]_vars

\* ----------------------------------------- load_settings and reload_settings
\* config/loader.py, lines 10-52. The settings a call returns are known by
\* the file they were read from and by which read of a file it was
SettingsPaths == {"None", "custom.yaml", "missing.yaml"}

LoaderInit ==
    /\ FlowIdle /\ AggregatorIdle /\ DiscoveryIdle /\ ParserIdle /\ MainIdle
    /\ RunnerIdle /\ RagIdle /\ SwapIdle /\ OverrideIdle /\ RepairIdle
    /\ SessionIdle
    /\ settings_cache = NoCache
    /\ settings_disk \in SUBSET {"settings.yaml", "custom.yaml"}
    /\ settings_reads = 0
    /\ settings_log = << >>

\* lines 28-32: the default file of the config directory, or the path given
SettingsFile(settings_path) ==
    IF settings_path = "None" THEN "settings.yaml" ELSE settings_path

\* a load_settings whose cache is good for the path it was filled from only
LoadPerPath(cache, disk, reads, settings_path) ==
    LET file == SettingsFile(settings_path)
    IN  IF cache # NoCache /\ cache.path = file
        THEN [cache |-> cache, reads |-> reads, raised |-> "none", value |-> cache]
        ELSE IF file \notin disk
        THEN [cache |-> cache, reads |-> reads, raised |-> "FileNotFoundError",
              value |-> NoCache]
        ELSE LET settings == [path |-> file, read |-> reads + 1]
             IN  [cache |-> settings, reads |-> reads + 1, raised |-> "none",
                  value |-> settings]

\* load_settings, lines 25-45: the cache if there is one; else the file is
\* read, overridden from the environment and cached
Load(cache, disk, reads, settings_path) ==
    LET file == SettingsFile(settings_path)
    IN  IF cache # NoCache
        THEN [cache |-> cache, reads |-> reads, raised |-> "none", value |-> cache]
        ELSE IF file \notin disk
        THEN [cache |-> cache, reads |-> reads, raised |-> "FileNotFoundError",
              value |-> NoCache]
        ELSE LET settings == [path |-> file, read |-> reads + 1]
             IN  [cache |-> settings, reads |-> reads + 1, raised |-> "none",
                  value |-> settings]

\* a reload_settings that puts the old cache back when the load fails
ReloadKeeping(cache, disk, reads, settings_path) ==
    LET loaded == Load(NoCache, disk, reads, settings_path)
    IN  IF loaded.raised # "none" THEN [loaded EXCEPT !.cache = cache] ELSE loaded

\* reload_settings, lines 50-52: the cache is emptied, then load_settings
Reload(cache, disk, reads, settings_path) ==
    Load(NoCache, disk, reads, settings_path)

Called(function, settings_path, call) ==
    /\ settings_cache' = call.cache
    /\ settings_reads' = call.reads
    /\ settings_log' = Append(settings_log,
                              [function |-> function, settings_path |-> settings_path,
                               raised |-> call.raised, value |-> call.value])
    /\ UNCHANGED << settings_disk, LoaderRest >>

load_settings ==
    /\ Len(settings_log) < MaxLoads
    /\ \E settings_path \in SettingsPaths :
          Called("load_settings", settings_path,
                 Load(settings_cache, settings_disk, settings_reads, settings_path))

reload_settings ==
    /\ Len(settings_log) < MaxLoads
    /\ \E settings_path \in SettingsPaths :
          Called("reload_settings", settings_path,
                 Reload(settings_cache, settings_disk, settings_reads, settings_path))

LoaderNext ==
    \/ load_settings
    \/ reload_settings

LoaderSpec == LoaderInit /\ [][LoaderNext]_vars

\* ------------------------------------- the RAG Engine session of one query
\* tools/rag_query.py, lines 83-199, from the start of the listener thread
\* (token, URL and corpus are set). The two threads share result_queue and
\* session_endpoint; a step is one statement of one of them.
EndpointWaits == 10
InitializeWaits == 5
SearchWaits == 30

\* what a data line of the stream puts on the queue, lines 99-109: the
\* session endpoint, the reply to initialize (id 1), the reply to the tool
\* call (id 3), anything else
DataLines == {"endpoint", "id1", "id3", "raw"}

\* the result of a reply with id 3, lines 180-190: isError, a text item, no
\* text item, no object at all
ReplyResults == {"isError", "text", "empty", "malformed"}

SessionInit ==
    /\ FlowIdle /\ AggregatorIdle /\ DiscoveryIdle /\ ParserIdle /\ MainIdle
    /\ RunnerIdle /\ RagIdle /\ SwapIdle /\ OverrideIdle /\ RepairIdle
    /\ LoaderIdle
    /\ sse_pc = "start"
    /\ sse_iter = 0
    /\ sse_thread = "idle"
    /\ sse_lines = 0
    /\ result_queue = << >>
    /\ session_endpoint = "None"
    /\ sse_posts = << >>
    /\ sse_return = NoReturn

\* lines 115-119
sse_start ==
    /\ sse_pc = "start"
    /\ sse_pc' = "wait_endpoint"
    /\ sse_iter' = EndpointWaits
    /\ sse_thread' = "connect"
    /\ UNCHANGED << sse_lines, result_queue, session_endpoint, sse_posts, sse_return,
                    SessionRest >>

\* sse_listener, lines 90-96 and 110-111: the stream opens, or the request
\* raises
sse_connect ==
    /\ sse_thread = "connect"
    /\ \/ /\ sse_thread' = "stream"
          /\ UNCHANGED result_queue
       \/ /\ sse_thread' = "closed"
          /\ result_queue' = Append(result_queue, "error")
    /\ UNCHANGED << sse_pc, sse_iter, sse_lines, session_endpoint, sse_posts, sse_return,
                    SessionRest >>

\* sse_listener, lines 96-109: a data line. The endpoint is assigned (line
\* 102) before it is put (line 103)
sse_line ==
    /\ sse_thread = "stream"
    /\ sse_lines < MaxLines
    /\ sse_lines' = sse_lines + 1
    /\ \E line \in DataLines :
          IF line = "endpoint"
          THEN /\ session_endpoint' = "/messages/"
               /\ sse_thread' = "put_endpoint"
               /\ UNCHANGED result_queue
          ELSE /\ result_queue' = Append(result_queue, line)
               /\ UNCHANGED << session_endpoint, sse_thread >>
    /\ UNCHANGED << sse_pc, sse_iter, sse_posts, sse_return, SessionRest >>

\* sse_listener, line 103
sse_put_endpoint ==
    /\ sse_thread = "put_endpoint"
    /\ sse_thread' = "stream"
    /\ result_queue' = Append(result_queue, "endpoint")
    /\ UNCHANGED << sse_pc, sse_iter, sse_lines, session_endpoint, sse_posts, sse_return,
                    SessionRest >>

\* sse_listener: the stream ends, or reading it raises (lines 110-111)
sse_close ==
    /\ sse_thread = "stream"
    /\ sse_thread' = "closed"
    /\ \/ UNCHANGED result_queue
       \/ result_queue' = Append(result_queue, "error")
    /\ UNCHANGED << sse_pc, sse_iter, sse_lines, session_endpoint, sse_posts, sse_return,
                    SessionRest >>

\* result_queue.get(timeout=...): the oldest message, or Empty when there is
\* none for the whole timeout
Got == IF result_queue = << >> THEN "Empty" ELSE Head(result_queue)

Taken == IF result_queue = << >> THEN << >> ELSE Tail(result_queue)

SseReturns(text, id) ==
    /\ sse_pc' = "returned"
    /\ sse_return' = [text |-> text, id |-> id]

\* lines 119-126: one iteration of the wait for the endpoint
wait_endpoint ==
    /\ sse_pc = "wait_endpoint"
    /\ sse_iter > 0
    /\ result_queue' = Taken
    /\ IF Got = "endpoint"
       THEN /\ session_endpoint' = "/messages/"
            /\ sse_iter' = 0
       ELSE /\ sse_iter' = sse_iter - 1
            /\ UNCHANGED session_endpoint
    /\ UNCHANGED << sse_pc, sse_thread, sse_lines, sse_posts, sse_return, SessionRest >>

\* a query that goes on without looking at the endpoint
SessionAssumed(endpoint) == TRUE

\* line 128: if not session_endpoint
SessionEstablished(endpoint) == endpoint # "None"

\* lines 128-131
check_session ==
    /\ sse_pc = "wait_endpoint"
    /\ sse_iter = 0
    /\ IF SessionEstablished(session_endpoint)
       THEN /\ sse_pc' = "post_initialize"
            /\ UNCHANGED sse_return
       ELSE SseReturns("Error: Failed to establish MCP session", 0)
    /\ UNCHANGED << sse_iter, sse_thread, sse_lines, result_queue, session_endpoint,
                    sse_posts, SessionRest >>

\* requests.post(messages_url, ...): posted, or Timeout (lines 196-197), or
\* another RequestException (lines 198-199)
Post(method, next, waits) ==
    /\ \/ /\ sse_posts' = Append(sse_posts, method)
          /\ sse_pc' = next
          /\ sse_iter' = waits
          /\ UNCHANGED sse_return
       \/ /\ SseReturns("Error: Search timed out", 0)
          /\ UNCHANGED << sse_posts, sse_iter >>
       \/ /\ SseReturns("RAG Engine Error:", 0)
          /\ UNCHANGED << sse_posts, sse_iter >>
    /\ UNCHANGED << sse_thread, sse_lines, result_queue, session_endpoint, SessionRest >>

\* line 144
post_initialize ==
    /\ sse_pc = "post_initialize"
    /\ Post("initialize", "wait_initialize", InitializeWaits)

\* lines 147-153: one iteration of the wait for the reply to initialize
wait_initialize ==
    /\ sse_pc = "wait_initialize"
    /\ sse_iter > 0
    /\ result_queue' = Taken
    /\ sse_iter' = IF Got = "id1" THEN 0 ELSE sse_iter - 1
    /\ UNCHANGED << sse_pc, sse_thread, sse_lines, session_endpoint, sse_posts, sse_return,
                    SessionRest >>

\* line 157
post_initialized ==
    /\ sse_pc = "wait_initialize"
    /\ sse_iter = 0
    /\ Post("notifications/initialized", "post_search", 0)

\* line 173
post_search ==
    /\ sse_pc = "post_search"
    /\ Post("tools/call query_rag", "wait_search", SearchWaits)

\* lines 176-192: one iteration of the wait for the reply to the tool call
wait_search ==
    /\ sse_pc = "wait_search"
    /\ sse_iter > 0
    /\ result_queue' = Taken
    /\ IF Got = "id3"
       THEN /\ \E result \in ReplyResults :
                 CASE result = "isError" -> SseReturns("RAG Error:", 3)
                   [] result = "text" -> SseReturns("formatted", 3)
                   [] result = "empty" -> SseReturns("No results found", 3)
                   [] OTHER -> /\ sse_pc' = "raised"
                               /\ sse_return' = [text |-> "AttributeError", id |-> 3]
            /\ UNCHANGED sse_iter
       ELSE /\ sse_iter' = sse_iter - 1
            /\ UNCHANGED << sse_pc, sse_return >>
    /\ UNCHANGED << sse_thread, sse_lines, session_endpoint, sse_posts, SessionRest >>

\* line 194
search_timed_out ==
    /\ sse_pc = "wait_search"
    /\ sse_iter = 0
    /\ SseReturns("Error: Search timed out", 0)
    /\ UNCHANGED << sse_iter, sse_thread, sse_lines, result_queue, session_endpoint,
                    sse_posts, SessionRest >>

SessionNext ==
    \/ sse_start
    \/ sse_connect
    \/ sse_line
    \/ sse_put_endpoint
    \/ sse_close
    \/ wait_endpoint
    \/ check_session
    \/ post_initialize
    \/ wait_initialize
    \/ post_initialized
    \/ post_search
    \/ wait_search
    \/ search_timed_out

SessionSpec == SessionInit /\ [][SessionNext]_vars

\* ================================================================ properties
Invoked(method) == \E k \in DOMAIN called : called[k] = method

RunMode == Lower(state.run_mode)

\* ------------------------------------------------------------------------ C1
\* C1: the phases a run invokes are determined by the run mode the flow runs
\* in (state.run_mode): in execute_only discovery is never invoked; in
\* prompt_only discovery and prompt generation are invoked and neither test
\* generation nor test execution ever is; in generate_only discovery, prompt
\* generation and test generation are invoked and test execution never is.
C1_ModeRouting ==
    /\ RunMode = "execute_only" => ~Invoked("discover_rag_data")
    /\ RunMode = "prompt_only" =>
          /\ ~Invoked("generate_test_cases")
          /\ ~Invoked("execute_tests") /\ ~Invoked("execute_csv_tests")
          /\ pc \notin {"generate_test_cases", "execute_tests", "execute_csv_tests"}
          /\ pc = "done" => /\ Invoked("discover_rag_data")
                            /\ Invoked("generate_prompt_suggestions")
    /\ RunMode = "generate_only" =>
          /\ ~Invoked("execute_tests") /\ ~Invoked("execute_csv_tests")
          /\ pc \notin {"execute_tests", "execute_csv_tests"}
          /\ pc = "done" => /\ Invoked("discover_rag_data")
                            /\ Invoked("generate_prompt_suggestions")
                            /\ Invoked("generate_test_cases")

\* a generate_only run that has ended with its three phases behind it
C1_Witness ==
    /\ pc = "done" /\ RunMode = "generate_only"
    /\ Invoked("generate_test_cases") /\ state.test_cases # << >>

\* ------------------------------------------------------------------------ C2
\* C2: a run started by run_flow(run_mode=M) has state.run_mode = M when the
\* entry router reads it and at every later routing decision.
C2_RunModeFixed ==
    (entry = "run_flow" /\ requested \in valid_modes /\ pc \notin {"idle", "raised"})
        => state.run_mode = requested

\* ------------------------------------------------------------------------ C3
\* C3: in the modes that end in REPORT (full, generate_and_execute,
\* execute_only) the value the terminal phase returns, which is what kickoff
\* and run_flow return, equals state.quality_report.
C3_ReportReturned ==
    (pc = "done" /\ RunMode \in {"full", "generate_and_execute", "execute_only"})
        => method_output = state.quality_report

\* ------------------------------------------------------------------------ C4
\* an execute_only run, past the entry point, whose CSV file does not exist
MissingCsvRun ==
    /\ pc = "route_by_mode" \/ Invoked("route_by_mode")
    /\ RunMode = "execute_only" /\ state.test_csv_path = "missing.csv"

C5_ResultsBounded == Len(state.results) <= Len(state.test_cases)

\* the loop has recorded a result for each of two test cases
C5_Witness ==
    Len(state.test_cases) = 2 /\ Len(state.results) = 2 /\ pc = "execute_tests"

\* ------------------------------------------------------------------------ C6
\* EXECUTE has returned
ExecuteReturned ==
    \E k \in DOMAIN called :
        /\ called[k] \in {"execute_tests", "execute_csv_tests"}
        /\ ~(pc = "raised" /\ k = Len(called))

C6_InOrder ==
    /\ Len(state.results) <= Len(state.test_cases)
    /\ \A k \in DOMAIN state.results :
          state.results[k].test_case = state.test_cases[k]
    /\ ExecuteReturned => Len(state.results) = Len(state.test_cases)

C6_AppendOnly ==
    /\ Len(state'.results) >= Len(state.results)
    /\ \A k \in DOMAIN state.results : state'.results[k] = state.results[k]

\* C6: results grows only by appending, in test-case order: the i-th result
\* is the result of the i-th test case, a result once appended is never
\* changed or removed, and when EXECUTE returns there is exactly one result
\* per test case.
C6_ResultsFollowTestCases == [] C6_InOrder /\ [][C6_AppendOnly]_vars

\* EXECUTE has returned after two different test cases
C6_Witness ==
    /\ ExecuteReturned /\ Len(state.results) = 2
    /\ state.test_cases[1] # state.test_cases[2]

\* ------------------------------------------------------------------------ C7
\* rate = 100 * passed / len(results), 0 for no results
RateOf(rate, results) ==
    IF results = << >>
    THEN rate.num = 0
    ELSE rate.num * Len(results) = 100 * CountPassed(results) * rate.den

\* C7 as stated: in every reachable state pass_rate is 100 * passed /
\* len(results) for non-empty results and 0 for empty ones.
C7_PassRateAlways == RateOf(state.pass_rate, state.results)

\* C7, amended: once EVALUATE has computed it, pass_rate is 100 * passed /
\* len(results) for the results recorded; until then (during EXECUTE, and in
\* a run whose EVALUATE is skipped) it keeps its initial value 0 whatever
\* results holds.
C7_PassRateAfterEvaluate ==
    IF analysed > 0
    THEN RateOf(state.pass_rate, state.results)
    ELSE state.pass_rate = Zero

\* EVALUATE has run over one passed and one failed result
C7_Witness ==
    /\ analysed > 0 /\ Len(state.results) = 2
    /\ CountPassed(state.results) = 1
    /\ state.pass_rate = [num |-> 100, den |-> 2]

\* ------------------------------------------------------------------------ C8
\* the setting the configured target mode needs is missing
ConfigMissing ==
    \/ crew_runner.mode = "api" /\ (~env_token \/ ~crew_runner.api_url)
    \/ crew_runner.mode # "api" /\ (~crew_runner.crew_module \/ ~crew_runner.crew_path)

C9_GenerationExceptionsCaught ==
    ~ /\ raised = "CrewException"
      /\ called[Len(called)] \in {"discover_rag_data", "generate_prompt_suggestions",
                                  "generate_test_cases"}

\* ----------------------------------------------------------------------- C10
\* the last result recorded is the one made from the judge's last reply
Judged ==
    judge # NoJudge /\ raised # "ValidationError" /\ state.results # << >>

LastResult == state.results[Len(state.results)]

C11_JudgeOutcomeRecorded ==
    /\ raised # "ValidationError"
    /\ (judge # NoJudge /\ asked = i) => Len(state.results) = i

\* ----------------------------------------------------------------------- C12
C12_OneCallAtATime ==
    /\ Len(state.results) = i
    /\ asked = i \/ asked = i + 1

C12_InTurn ==
    /\ asked' # asked =>
          /\ asked = Len(state.results)
          /\ asked' = asked + 1
    /\ state'.results # state.results =>
          /\ asked = Len(state.results) + 1
          /\ Len(state'.results) = asked
          /\ asked' = asked
    /\ (raised' = "ValidationError" /\ raised = "none") =>
          asked = Len(state.results) + 1

\* C12: test execution is strictly sequential: at most one answer is ever
\* waiting for its verdict, the judge call for a test case is made only after
\* its ask call has returned, and the ask call for the next test case only
\* after the TestResult of this one has been appended.
C12_Sequential == [] C12_OneCallAtATime /\ [][C12_InTurn]_vars

\* the second question has been asked, with the first result recorded
C12_Witness ==
    /\ pc = "execute_tests" /\ asked = 2 /\ Len(state.results) = 1
    /\ actual_answer # "none"

\* ----------------------------------------------------------------------- C13
\* the methods of a full run and of an execute_only run, in the order of the
\* @start, @router and @listen wiring
FullOrder ==
    << "route_by_mode", "mode_router", "discover_rag_data",
       "generate_prompt_suggestions", "check_prompt_only_exit",
       "prompt_exit_router", "generate_test_cases", "check_generate_only_exit",
       "generate_exit_router", "execute_tests", "evaluate_results",
       "generate_report" >>

CsvOrder ==
    << "route_by_mode", "mode_router", "load_tests_from_csv",
       "execute_csv_tests", "evaluate_csv_results", "generate_csv_report" >>

IsPrefix(s, t) == Len(s) <= Len(t) /\ \A k \in DOMAIN s : s[k] = t[k]

\* the methods invoked so far are the first of the order, each once, and the
\* one that runs now or next is the one that follows them
FollowsOrder(order) ==
    /\ IsPrefix(called, order)
    /\ pc = "done" => called = order
    /\ pc \notin {"idle", "done", "raised"} =>
          Len(called) < Len(order) /\ pc = order[Len(called) + 1]

\* C13: the phases of a run execute one after another in the fixed order of
\* the state machine (full: DISCOVER, GENERATE_PROMPTS, GENERATE_TESTS,
\* EXECUTE, EVALUATE, REPORT; execute_only: LOAD_CSV, EXECUTE, EVALUATE,
\* REPORT), each at most once, each only after the one before it has
\* finished, and never two at a time.
C13_PhaseOrder ==
    /\ RunMode = "full" => FollowsOrder(FullOrder)
    /\ RunMode = "execute_only" => FollowsOrder(CsvOrder)

\* a full run has ended with test cases executed
C13_Witness ==
    /\ pc = "done" /\ RunMode = "full" /\ called = FullOrder
    /\ Len(state.results) = 2

\* ----------------------------------------------------------------------- C14
RunStarted == pc = "route_by_mode" \/ Invoked("route_by_mode")

\* C14: a run in mode generate_and_execute, or given a mode string that is
\* not one of the five, goes through the same sequence of phases as a full
\* run; the unrecognised mode is coerced to full.
C14_RunsAsFull ==
    RunStarted =>
        /\ Lower(requested) \notin valid_modes => state.run_mode = "full"
        /\ (RunMode = "generate_and_execute" \/ Lower(requested) \notin valid_modes)
              => FollowsOrder(FullOrder)

\* a run given the mode "bogus" has ended as a full run does
C14_Witness ==
    /\ entry = "kickoff" /\ requested = "bogus"
    /\ pc = "done" /\ called = FullOrder

\* ------------------------------------------------------------------- C15
\* the statistics the analysis collaborator gets for an empty result list
ZeroStatistics ==
    /\ analysis_inputs.given
    /\ analysis_inputs.pass_rate = 0
    /\ analysis_inputs.total_tests = 0
    /\ analysis_inputs.passed_count = 0
    /\ analysis_inputs.failed_count = 0

CategoriesOf(results) == { results[k].test_case.category : k \in DOMAIN results }

IndicesOf(results, cat) ==
    { k \in DOMAIN results : results[k].test_case.category = cat }

FailedOf(results, cat) == { k \in IndicesOf(results, cat) : ~results[k].passed }

FirstOccurrence(results, cat) ==
    CHOOSE k \in IndicesOf(results, cat) : \A j \in IndicesOf(results, cat) : k <= j

\* issues are the rationales, cut to 100 characters, of the first up to 3
\* failed results of the category, in encounter order
IsCommonIssuesOf(issues, results, cat) ==
    /\ Len(issues) = Min(MaxIssues, Cardinality(FailedOf(results, cat)))
    /\ \A n \in DOMAIN issues :
          \E k \in FailedOf(results, cat) :
             /\ Cardinality({ j \in FailedOf(results, cat) : j < k }) = n - 1
             /\ issues[n].tag = results[k].evaluation_rationale.tag
             /\ issues[n].len = Min(IssueChars, results[k].evaluation_rationale.len)

\* scores is what C16 says the aggregator returns for results
IsAggregateOf(scores, results) ==
    /\ Len(scores) = Cardinality(CategoriesOf(results))
    /\ { scores[k].category : k \in DOMAIN scores } = CategoriesOf(results)
    /\ \A a, b \in DOMAIN scores :
          a < b => FirstOccurrence(results, scores[a].category)
                     < FirstOccurrence(results, scores[b].category)
    /\ \A k \in DOMAIN scores :
          LET cat == scores[k].category
          IN  /\ scores[k].total = Cardinality(IndicesOf(results, cat))
              /\ scores[k].passed =
                    Cardinality(IndicesOf(results, cat) \ FailedOf(results, cat))
              /\ scores[k].pass_rate.den > 0
              /\ scores[k].pass_rate.num * scores[k].total
                    = 100 * scores[k].passed * scores[k].pass_rate.den
              /\ IsCommonIssuesOf(scores[k].common_issues, results, cat)

\* C16: for any result list the category aggregator returns exactly one
\* CategoryScore per distinct category, in order of first occurrence, with
\* total and passed the counts of the category, pass_rate = 100 * passed /
\* total, and common_issues the rationales, cut to 100 characters, of the
\* first up to 3 failed results of the category in encounter order
C16_AggregatePerCategory ==
    [][agg_calls' # agg_calls => IsAggregateOf(agg_scores', agg_results)]_vars

\* aggregated: two categories, the one met first listed first, and a failed
\* result whose rationale was longer than 100 characters
C16_Witness ==
    /\ agg_calls > 0
    /\ Len(agg_results) = MaxAggLen
    /\ IsAggregateOf(agg_scores, agg_results)
    /\ Len(agg_scores) = 2
    /\ agg_scores[1].category = "reasoning"
    /\ agg_scores[1].passed = 1
    /\ agg_scores[2].total = 2
    /\ \E k \in DOMAIN agg_results :
          ~agg_results[k].passed /\ agg_results[k].evaluation_rationale.len > IssueChars
    /\ \E n \in DOMAIN agg_scores[2].common_issues :
          agg_scores[2].common_issues[n].len = IssueChars

InPercentRange(rate) == rate.den > 0 /\ 0 <= rate.num /\ rate.num <= 100 * rate.den

\* C17: in every reachable state each CategoryScore has 0 <= passed <= total
\* and 0 <= pass_rate <= 100, and the overall pass rate is in [0, 100] and is
\* 0 while the result list is empty
C17_RatesInRange ==
    /\ \A k \in DOMAIN state.category_scores :
          /\ 0 <= state.category_scores[k].passed
          /\ state.category_scores[k].passed <= state.category_scores[k].total
          /\ InPercentRange(state.category_scores[k].pass_rate)
    /\ InPercentRange(state.pass_rate)
    /\ state.results = << >> => state.pass_rate.num = 0

\* evaluated: a category all passed, a category all failed, half overall
C17_Witness ==
    /\ analysed = 1
    /\ Len(state.category_scores) = 2
    /\ state.category_scores[1].passed = state.category_scores[1].total
    /\ state.category_scores[1].pass_rate.num = 100 * state.category_scores[1].pass_rate.den
    /\ state.category_scores[2].passed = 0
    /\ state.category_scores[2].total = 1
    /\ state.category_scores[2].pass_rate.num = 0
    /\ 2 * state.pass_rate.num = 100 * state.pass_rate.den

\* ------------------------------------------------------------------- C19
RECURSIVE SumSeq(_)
SumSeq(numbers) ==
    IF numbers = << >> THEN 0 ELSE Head(numbers) + SumSeq(Tail(numbers))

RowTotals(rows) == [k \in DOMAIN rows |-> rows[k].passed + rows[k].failed]

RowPassed(rows) == [k \in DOMAIN rows |-> rows[k].passed]

\* C19: once REPORT has run, state.pass_rate, the pass rate given to the
\* analysis collaborator and the pass rate given to the report collaborator
\* are equal (at the one decimal the collaborators are given), and the
\* category scores given to the report aggregate the same results: their
\* totals sum to len(results) and their passed counts to the number passed
C19_SameFigures ==
    report_inputs.given =>
        /\ analysis_inputs.given
        /\ analysis_inputs.pass_rate = report_inputs.pass_rate
        /\ report_inputs.pass_rate = Format1(state.pass_rate)
        /\ report_inputs.total_tests = analysis_inputs.total_tests
        /\ report_inputs.passed_count = analysis_inputs.passed_count
        /\ SumSeq(RowTotals(report_inputs.category_breakdown)) = Len(state.results)
        /\ SumSeq(RowPassed(report_inputs.category_breakdown))
              = CountPassed(state.results)

\* a report was made of two results in two categories, one of them passed
C19_Witness ==
    /\ report_inputs.given
    /\ Invoked("generate_report") \/ Invoked("generate_csv_report")
    /\ Len(state.results) = 2
    /\ CountPassed(state.results) = 1
    /\ Len(report_inputs.category_breakdown) = 2
    /\ report_inputs.pass_rate = 500

\* ------------------------------------------------------------------- C20
\* the validity check as C20 states it: the output parses as a JSON object
\* that has a domains key or a total_coverage_estimate key
ParsesAsObjectWithKey(result) == result \in {"object_domains", "object_estimate"}

DiscoveryEnded == disc_pc \in {"returned", "raised", "stored"}

\* C20: discovery makes at most max_retries attempts and returns the output
\* of the first attempt that passes the validity check (an attempt that
\* raises counts as failed); the fallback is called exactly once if and only
\* if no attempt passed, and not at all otherwise
C20_FirstValidAttemptOrFallback ==
    /\ attempt <= max_retries
    /\ fallbacks <= 1
    /\ fallbacks = 1 => DiscoveryEnded
    /\ DiscoveryEnded =>
          /\ fallbacks = 1 <=>
                \A k \in 1..max_retries : ~ParsesAsObjectWithKey(crew_outputs[k])
          /\ fallbacks = 0 =>
                /\ attempt >= 1
                /\ disc_result = crew_outputs[attempt]
                /\ ParsesAsObjectWithKey(disc_result)
                /\ \A k \in 1..(attempt - 1) : ~ParsesAsObjectWithKey(crew_outputs[k])

\* ------------------------------------------------------------------- C21
\* C21: the discovery fallback never fails and always yields at least one
\* domain: once the fallback has been called it has returned a summary with
\* at least one domain, whatever its RAG query gave, and the RagSummary that
\* DISCOVER stores after a fallback has at least one domain
C21_FallbackYieldsDomain ==
    fallbacks > 0 =>
        /\ disc_pc # "raised"
        /\ Len(fallback_domains) >= 1
        /\ disc_pc = "stored" => Len(rag_summary.domains) >= 1

\* ------------------------------------------------------------------- C22
\* rag_summary and prompt_suggestions are each written by their own phase
\* only, and only from null to a value
C22_SetOnce ==
    /\ state'.rag_summary # state.rag_summary =>
          /\ pc = "discover_rag_data"
          /\ state.rag_summary = "None" /\ state'.rag_summary # "None"
    /\ state'.prompt_suggestions # state.prompt_suggestions =>
          /\ pc = "generate_prompt_suggestions"
          /\ state.prompt_suggestions = "None" /\ state'.prompt_suggestions # "None"

\* once a phase has been entered its output is there
C22_SetByPhase ==
    state.run_mode # "execute_only" =>
        /\ Invoked("discover_rag_data") => state.rag_summary # "None"
        /\ Invoked("generate_prompt_suggestions") => state.prompt_suggestions # "None"

\* C22: in every run whose mode is not execute_only, rag_summary is set
\* exactly once, by DISCOVER, and is non-null from then on whatever the
\* discovery collaborator returned or raised; prompt_suggestions is set
\* exactly once, by GENERATE_PROMPTS, and is non-null from then on whatever
\* the prompt collaborator returned or raised
C22_SummariesSetOnce == [] C22_SetByPhase /\ [][C22_SetOnce]_vars

\* ------------------------------------------------------------------- C23
UnrecognisedCategory(value) ==
    value = "not_a_string" \/ Lower(value) \notin TestCategory

UnrecognisedDifficulty(value) ==
    value = "not_a_string" \/ Lower(value) \notin TestDifficulty

\* the test case made of item k is in the list
Kept(k) == \E n \in DOMAIN parse_cases : parse_cases[n].from = k

CaseOf(k) == parse_cases[CHOOSE n \in DOMAIN parse_cases : parse_cases[n].from = k]

\* C23: for every CSV row and every generated item, an unrecognised category
\* value yields a TestCase with category FACTUAL and an unrecognised
\* difficulty value one with difficulty MEDIUM; the row or item (whose other
\* fields are in order) is kept, not dropped and not failed
C23_UnrecognisedDefaults ==
    /\ \A k \in 1..parse_index :
          ( /\ parse_items[k].kind = "object" /\ parse_items[k].fields_ok
            /\ \/ UnrecognisedCategory(parse_items[k].category)
               \/ UnrecognisedDifficulty(parse_items[k].difficulty)
            /\ \A j \in 1..(k - 1) :
                  BuildTestCase(parse_items[j], j).raised = "none" )
          => /\ parse_pc # "failed"
             /\ Kept(k)
             /\ UnrecognisedCategory(parse_items[k].category)
                   => CaseOf(k).category = "factual"
             /\ UnrecognisedDifficulty(parse_items[k].difficulty)
                   => CaseOf(k).difficulty = "medium"

\* ------------------------------------------------------------------- C24
\* an item a TestCase can be constructed of: an object whose category and
\* difficulty are strings and whose other fields TestCase accepts
Constructible(item) ==
    /\ item.kind = "object"
    /\ item.category # "not_a_string"
    /\ item.difficulty # "not_a_string"
    /\ item.fields_ok

\* the parser's list holds, in input order, exactly the constructible items
\* among those gone through; it has not failed; and what it returns is that
\* list over all the items, the empty list for output that is no array
C24_ConstructibleKept ==
    parse_source = "generated" =>
        /\ parse_pc \in {"loop", "returned"}
        /\ \A a, b \in DOMAIN parse_cases :
              a < b => parse_cases[a].from < parse_cases[b].from
        /\ { parse_cases[n].from : n \in DOMAIN parse_cases }
              = { k \in 1..parse_index : Constructible(parse_items[k]) }
        /\ parse_pc = "returned" =>
              /\ parse_result = parse_cases
              /\ parse_index = Len(parse_items)
              /\ raw_output # "array" => parse_result = << >>

\* an item leaves the test cases made of the items before it as they are
C24_OthersUntouched ==
    parse_source = "generated" =>
        /\ Len(parse_cases) <= Len(parse_cases')
        /\ SubSeq(parse_cases', 1, Len(parse_cases)) = parse_cases

\* C24: test-case construction is per item: the parser returns, in input
\* order, a TestCase for every array item that can be constructed and
\* silently drops every item that cannot; a bad item never affects the other
\* items, unparseable output yields an empty list, and no error is raised
C24_PerItemConstruction == [] C24_ConstructibleKept /\ [][C24_OthersUntouched]_vars

\* returned: one test case, made of the first item; the second was dropped
C24_Witness ==
    /\ parse_source = "generated" /\ parse_pc = "returned"
    /\ Len(parse_items) = 2
    /\ Constructible(parse_items[1]) /\ ~Constructible(parse_items[2])
    /\ Len(parse_result) = 1
    /\ parse_result[1].from = 1

\* ------------------------------------------------------------------- C25
\* C25: selecting run mode execute_only without a test CSV path is a usage
\* error: the program exits with a non-zero status before the flow is
\* constructed or any phase runs
C25_CsvRequired ==
    (cli_args.run_mode = "execute_only" /\ cli_args.test_csv = "") =>
        /\ ~flow_constructed
        /\ main_pc \in {"parse_args", "validate", "exited"}
        /\ main_pc = "exited" => exit_status # 0

\* exited on the missing --test-csv, the rest of the command line in order
C25_Witness ==
    /\ cli_args.run_mode = "execute_only" /\ cli_args.test_csv = ""
    /\ main_pc = "exited"
    /\ main_error = "--test-csv is required"
    /\ exit_status = 2
    /\ ~flow_constructed

\* C26: once the kickoff has given a job id, the polling of CrewRunnerTool
\* always ends: it returns the result as soon as the job is completed, the
\* "Crew failed: " string as soon as it failed, and the "Timeout: " string
\* only once api_timeout has elapsed; while the status is pending, running
\* or one it does not know, the next check comes no sooner than the poll
\* interval after this one.
C26_Outcome ==
    /\ last_status = "completed" => run_pc = "returned" /\ run_result = "result"
    /\ last_status = "failed" => run_pc = "returned" /\ run_result = "Crew failed: "
    /\ run_result = "Timeout: " =>
          /\ run_pc = "returned"
          /\ elapsed >= api_timeout
          /\ last_status \in {"none", "pending", "running", "unrecognised"}
    /\ run_pc = "poll" => last_status \in {"none", "pending", "running", "unrecognised"}

C26_WaitsInterval ==
    (run_pc = "poll" /\ run_pc' = "poll") =>
        /\ elapsed < api_timeout
        /\ elapsed' > elapsed
        /\ elapsed' >= elapsed + api_poll_interval

C26_PollingTerminates ==
    /\ [] C26_Outcome
    /\ [][C26_WaitsInterval]_vars
    /\ (run_pc = "poll") ~> (run_pc \in {"returned", "raised"})

C26_Witness ==
    /\ run_pc = "returned"
    /\ run_result = "Timeout: "
    /\ last_status = "unrecognised"
    /\ api_poll_interval > 0
    /\ http_requests >= 3

\* C29: in API mode with the token variable unset, _run raises the
\* RuntimeError that names the variable before any HTTP request is sent; in
\* local mode without a crew module it raises RuntimeError before any
\* subprocess is started.
C29_ChecksComeFirst ==
    run_pc # "run" =>
        /\ (run_tool.mode = "api" /\ ~run_token) =>
              /\ run_pc = "raised"
              /\ run_result = "api_token_env_var environment variable not set"
              /\ http_requests = 0
        /\ (run_tool.mode # "api" /\ ~run_tool.crew_module) =>
              /\ run_pc = "raised"
              /\ run_result = "crew_module not configured for local mode"
              /\ subprocesses = 0

C29_Witness ==
    /\ run_tool.mode = "api" /\ ~run_token /\ run_tool.api_url
    /\ run_pc = "raised"
    /\ run_result = "api_token_env_var environment variable not set"
    /\ http_requests = 0

\* C27: the text a RAG query returns holds at most 3 result items of at most
\* 500 characters of excerpt each, with the RAG Engine backend and with the
\* Qdrant backend alike, and the number of results asked of the backend
\* never exceeds max_results.
C27_BoundedOutput ==
    /\ rag_requested <= rag_tool.max_results
    /\ rag_pc = "returned" =>
          /\ rag_output.items <= 3
          /\ rag_output.excerpt <= 500

\* C28: a RAG query always returns a string and never raises, and every
\* outcome that is an error or holds no result starts with "Error:" or
\* "No results found".
C28_ErrorsAreStrings ==
    /\ rag_pc # "raised"
    /\ (rag_pc = "returned" /\ rag_output.items = 0) =>
          rag_output.prefix \in {"Error:", "No results found"}

C30_Swap ==
    LET backend == IF kick_inputs.RAG_BACKEND = "" THEN "ragengine"
                   ELSE Lower(kick_inputs.RAG_BACKEND)
        mcp_url == IF kick_inputs.RAG_MCP_URL # "" THEN kick_inputs.RAG_MCP_URL
                   ELSE kick_inputs.RAG_ENDPOINT
        swaps   == kick_pc = "swap" /\ kick_pc' = "mapped"
    IN  CASE swaps /\ backend = "ragengine" /\ mcp_url # ""
                   /\ kick_inputs.RAG_CORPUS # "" ->
                flow_rag_tool' = RagQueryTool("kickoff", "ragengine", mcp_url,
                                              kick_inputs.RAG_CORPUS, "", "")
          [] swaps /\ backend = "qdrant" /\ kick_inputs.RAG_QDRANT_URL # ""
                   /\ kick_inputs.RAG_QDRANT_COLLECTION # "" ->
                flow_rag_tool' = RagQueryTool("kickoff", "qdrant", "", "",
                                              kick_inputs.RAG_QDRANT_URL,
                                              kick_inputs.RAG_QDRANT_COLLECTION)
          [] OTHER -> flow_rag_tool' = flow_rag_tool

C31_ArgumentsInState ==
    (pc = "idle" /\ entry' = "run_flow" /\ pc' = "route_by_mode") =>
        \E a \in RunFlowArgs :
            /\ requested' = a.run_mode
            /\ state'.test_csv_path = a.test_csv_path
            /\ state'.target_api_url = a.target_api_url
            /\ state'.target_crew_path = a.target_crew_path
            /\ state'.target_mode = IF a.target_api_url # "" THEN "api" ELSE "local"

C31_RunFlowArgumentsKept == [][C31_ArgumentsInState]_vars

\* C32: after the override step, for every key path k1.k2...kn of two or
\* more keys, whatever the keys' names, whose variable PREFIX_K1_..._KN is
\* set, the settings hold at that path the coerced value of the variable.
C32_EveryKeyOverridden ==
    ov_pc = "returned" =>
        \A path \in KeyPaths : \A k \in DOMAIN ov_environ :
            (ov_environ[k].prefixed /\ ov_environ[k].parts = EnvName(path)) =>
                /\ path \in DOMAIN ov_settings
                /\ ov_settings[path] = parse_value(ov_environ[k].value)

\* C33: for the judge output cut inside its rationale,
\* {"passed": true, "score": 0.75, "rationale": "Good but incomp, the repair
\* produces a text that json.loads takes as an object with a rationale key.
C33_TruncatedReplyRepaired ==
    (ev_content = SubSeq(Reply, 1, 19) /\ ev_pc \in {"parse", "returned"}) =>
        /\ Loads(ev_json).ok
        /\ "rationale" \in Loads(ev_json).keys

\* C34: every TestResult recorded by the execution phase has passed true
\* exactly when its similarity_score is at least the pass threshold.
C34_PassedIffAtLeastThreshold ==
    \A k \in DOMAIN state.results :
        state.results[k].passed = (state.results[k].similarity_score >= pass_threshold)

LastCall == settings_log'[Len(settings_log')]

\* C35: once a load_settings call has succeeded, every later load_settings
\* call returns the cached settings, whatever path it is given and without
\* opening a file, until reload_settings is called, which drops the cache
\* and loads again.
C35_Cached ==
    \A k \in DOMAIN settings_log :
        settings_log[k].raised = "none" => settings_log[k].value # NoCache

C35_Call ==
    settings_log' # settings_log =>
        /\ LastCall.raised = "none" => settings_cache' = LastCall.value
        /\ (LastCall.function = "load_settings" /\ settings_cache # NoCache) =>
              /\ LastCall.raised = "none"
              /\ LastCall.value = settings_cache
              /\ settings_reads' = settings_reads
              /\ settings_cache' = settings_cache
        /\ (LastCall.function = "reload_settings" /\ LastCall.raised = "none") =>
              /\ settings_reads' = settings_reads + 1
              /\ LastCall.value =
                    [path |-> SettingsFile(LastCall.settings_path),
                     read |-> settings_reads']

C38_Call ==
    settings_log' # settings_log =>
        /\ (LastCall.function = "reload_settings"
              /\ SettingsFile(LastCall.settings_path) \notin settings_disk) =>
              /\ LastCall.raised = "FileNotFoundError"
              /\ settings_cache' = NoCache
        /\ (LastCall.function = "load_settings" /\ Len(settings_log) > 0
              /\ settings_log[Len(settings_log)].function = "reload_settings"
              /\ settings_log[Len(settings_log)].raised = "FileNotFoundError") =>
              /\ settings_cache = NoCache
              /\ LastCall.raised = "none" => settings_reads' = settings_reads + 1
              /\ LastCall.raised = "none" <=>
                    SettingsFile(LastCall.settings_path) \in settings_disk

C38_FailedReloadEmptiesCache == [][C38_Call]_vars

C38_Witness ==
    /\ Len(settings_log) = 3
    /\ settings_log[1].raised = "none"
    /\ settings_log[2].function = "reload_settings"
    /\ settings_log[2].raised = "FileNotFoundError"
    /\ settings_log[3].function = "load_settings"
    /\ settings_log[3].raised = "none"
    /\ settings_log[3].value # settings_log[1].value
    /\ settings_reads = 2

\* the methods of the session protocol, in the order of lines 144, 157, 173
Protocol == << "initialize", "notifications/initialized", "tools/call query_rag" >>

C36_InOrder ==
    /\ Len(sse_posts) <= Len(Protocol)
    /\ sse_posts = SubSeq(Protocol, 1, Len(sse_posts))
    /\ sse_posts # << >> => session_endpoint # "None"
    /\ sse_return.text = "Error: Failed to establish MCP session" => sse_posts = << >>
    /\ sse_pc = "wait_endpoint" => sse_iter <= EndpointWaits
    /\ sse_pc = "wait_initialize" => sse_iter <= InitializeWaits
    /\ sse_pc = "wait_search" => sse_iter <= SearchWaits

\* the step after the wait for the endpoint, line 128
C36_AfterWaits ==
    (sse_pc = "wait_endpoint" /\ sse_pc' # sse_pc) =>
        IF session_endpoint = "None"
        THEN /\ sse_pc' = "returned"
             /\ sse_return'.text = "Error: Failed to establish MCP session"
        ELSE /\ sse_pc' = "post_initialize"
             /\ sse_return' = sse_return

\* C36: nothing is posted before the listener has delivered the session
\* endpoint; without an endpoint within the waits the query returns "Error:
\* Failed to establish MCP session" and posts nothing; otherwise initialize,
\* notifications/initialized and the query_rag tool call are posted in that
\* order and the query returns the formatted result of the reply with the
\* tool call's id, or "Error: Search timed out".
C36_Returns ==
    /\ C36_InOrder
    /\ (sse_pc \in {"returned", "raised"}
          /\ sse_return.text # "Error: Failed to establish MCP session") =>
          /\ sse_pc = "returned"
          /\ sse_posts = Protocol
          /\ sse_return \in {[text |-> "formatted", id |-> 3],
                             [text |-> "Error: Search timed out", id |-> 0]}

C36_SessionProtocol == [] C36_Returns /\ [][C36_AfterWaits]_vars

\* C36, with every way the query ends: the posts are made in the protocol's
\* order and only with a session endpoint; a result made of a reply is made
\* of the reply with the tool call's id after all three posts: the formatted
\* text, "RAG Error:" for an error reply, "No results found" for a reply
\* without text, AttributeError raised for a result that is no object; a
\* post that fails ends the query before the posts after it, with "Error:
\* Search timed out" for a timeout and "RAG Engine Error:" otherwise.
C36_Outcomes ==
    /\ C36_InOrder
    /\ sse_pc = "returned" =>
          sse_return.text \in {"Error: Failed to establish MCP session", "formatted",
                               "RAG Error:", "No results found",
                               "Error: Search timed out", "RAG Engine Error:"}
    /\ sse_pc = "raised" => sse_return = [text |-> "AttributeError", id |-> 3]
    /\ sse_return.id = 3 <=>
          sse_return.text \in {"formatted", "RAG Error:", "No results found",
                               "AttributeError"}
    /\ sse_return.id = 3 => sse_posts = Protocol
    /\ sse_return.text = "RAG Engine Error:" =>
          (sse_posts # Protocol /\ session_endpoint # "None")
    /\ sse_return.text = "Error: Search timed out" =>
          /\ session_endpoint # "None"
          /\ sse_posts = Protocol => sse_iter = 0

C36_SessionProtocolOutcomes == [] C36_Outcomes /\ [][C36_AfterWaits]_vars

C36_Witness ==
    /\ sse_pc = "returned"
    /\ sse_return = [text |-> "formatted", id |-> 3]
    /\ sse_posts = Protocol
    /\ sse_thread = "stream"
    /\ sse_lines = MaxLines

\* C37: loading the CSV is all-or-nothing: state.test_cases is assigned once,
\* the converted rows of the whole file, after the last row; when the file
\* is missing or unreadable, or a row raises, it keeps the empty list it had
\* and never holds part of the file.
C37_Loaded ==
    parse_source = "csv" =>
        /\ parse_result # << >> =>
              /\ parse_pc = "returned"
              /\ parse_index = Len(parse_items)
              /\ Len(parse_result) = Len(parse_items)
              /\ \A k \in DOMAIN parse_result : parse_result[k].from = k
        /\ parse_pc = "returned" => parse_result = parse_cases
        /\ parse_pc = "failed" => parse_result = << >>

C37_Assigned ==
    (parse_source = "csv" /\ parse_result' # parse_result) =>
        /\ parse_pc = "loop" /\ parse_pc' = "returned"
        /\ parse_index = Len(parse_items)

C37_AllOrNothing == [] C37_Loaded /\ [][C37_Assigned]_vars

C37_Witness ==
    /\ parse_source = "csv"
    /\ parse_pc = "failed"
    /\ Len(parse_cases) = MaxItems - 1
    /\ parse_index = MaxItems
    /\ parse_result = << >>

\* C39: every state field the mapping of kickoff and run_flow uses is
\* declared, so the mapping always completes: whatever the inputs, the step
\* that leaves the entry point reaches the entry router.
C39_RouterReached ==
    (pc = "idle" /\ pc' # "idle") => (pc' = "route_by_mode" /\ raised' = raised)

C39_MappingCompletes == [][C39_RouterReached]_vars

====
